---- MODULE Spec2Model ----
(***************************************************************************)
(* Gap matching of the Skill-Gap-Analyzer: GapAnalyzer.analyze             *)
(* (app/services/analyzer.py), the analyze-gap-lists handler (app/main.py) *)
(* and RAGVerifier.verify_skill (app/services/rag_verifier.py).            *)
(*                                                                         *)
(* Numbers.  A similarity score is an integer count of thousandths         *)
(* (0.75 is 750).  A confidence is an integer count of 1/3000ths, the      *)
(* common denominator of the code's three confidence formulas              *)
(* ((s - 0.7) / 0.3, a value rounded to two decimals, a collaborator's     *)
(* decimal), so that every one of them is exact.  A percentage is an       *)
(* integer count of tenths of a percent (66.7 is 667).                     *)
(*                                                                         *)
(* A Python dict is a record; a key the code does not set is a field the   *)
(* record does not have ("confidence" \in DOMAIN r is Python's             *)
(* "confidence" in r).                                                     *)
(***************************************************************************)
EXTENDS Integers, Sequences, FiniteSets, TLC

VARIABLES
    client,            \* GeneratorService.client is set (an API key was given)
    collection,        \* the points of the Qdrant collection "current_analysis_resume": id -> text
    entry,             \* the entry point running: "idle", "analyze" or "lists"
    pc,                \* the position inside the running entry point
    required,          \* jd_chunks (analyze) / target_skills (lists)
    possessed,         \* resume_chunks (analyze) / request.resume_skills (lists)
    resume_lower,      \* lists: the dict of line 143, as <<key, value>> pairs in insertion order
    idx,               \* the index of the running for loop (1-based)
    needs_semantic,    \* lists: the targets phase 1 did not match
    covered_skills,
    missing_skills,
    borderline_cases,  \* <<skill, context or best_match, score>> records queued for verify_skill
    exact_matches,     \* lists: len(covered_skills) after phase 1
    best_score,        \* the local of the semantic loop (0 before its first iteration)
    best_match,        \* analyze: context; lists: best_match
    content,           \* the collaborator's answer to the latest verify_skill call
    verification,      \* the latest verify_skill result
    report,            \* the value the entry point returned
    failure,           \* where the entry point raised ("" while it has not)
    taxonomy,          \* SkillExtractor.taxonomy: _skills_set and _skills_lower_map (None before construction)
    nlp,               \* SkillExtractor._nlp: whether its tokenizer splits a word at a slash
    skills_order,      \* the iteration order of list(taxonomy.skills) in this process
    text,              \* the document of the latest extract call, line by line
    sections,          \* extract: what segmenter.segment returned
    skill_scores,      \* extract: skill -> highest score of its occurrences
    skill_counts,      \* extract: skill -> number of its occurrences
    extracted,         \* extract: the (skill, score) pairs of the blocks, in loop
                       \* order, each with the span that was matched
    raw_skills,        \* extract / _post_process: the raw accepted set
    final_skills,      \* extract / _post_process: the sorted list returned
    candidates,        \* _generate_candidates: the candidates returned
    normalized         \* taxonomy.normalize: the skill given and what was returned

vars == <<client, collection, entry, pc, required, possessed, resume_lower, idx,
          needs_semantic, covered_skills, missing_skills, borderline_cases,
          exact_matches, best_score, best_match, content, verification, report,
          failure, taxonomy, nlp, skills_order, text, sections, extracted,
          skill_scores, skill_counts, raw_skills, final_skills, candidates,
          normalized>>

\* The state of the lazily constructed SkillExtractor and of its latest call
\* (generator.py lines 10-16).
extractor_vars == <<taxonomy, nlp, skills_order, text, sections, extracted,
                    skill_scores, skill_counts, raw_skills, final_skills,
                    candidates, normalized>>

----------------------------------------------------------------------------
(* Bounds of the model. *)

\* the longest required-skill list of a detailed run
MaxReq == 2

\* the longest required-skill list of an aggregate run (three requirements
\* are the fewest whose percentages need rounding)
MaxReqAgg == 3

----------------------------------------------------------------------------
(* Program constants. *)

CLEAR_MATCH_THRESHOLD == 700
CLEAR_MISS_THRESHOLD == 300
FALLBACK_THRESHOLD == 500
DEFAULT_CONFIDENCE == 2100
ConfDen == 3000

None == "None"

Min(a, b) == IF a <= b THEN a ELSE b
Max(a, b) == IF a >= b THEN a ELSE b
Abs(a) == IF a >= 0 THEN a ELSE 0 - a

\* Python's round(x, 2) of x thousandths, in hundredths: to the nearest
\* hundredth, a tie going to the even one.
Round2(x) ==
    LET q == x \div 10
        r == x % 10
    IN  IF r < 5 THEN q
        ELSE IF r > 5 THEN q + 1
        ELSE IF q % 2 = 0 THEN q ELSE q + 1

\* Python's round(n / d * 100, 1), in tenths of a percent (d > 0, n >= 0).
\* A tie needs d to be a multiple of 16, which no list of the model reaches.
\* The percentage cut to one decimal instead of rounded.
RoundPercentFloor(n, d) == (1000 * n) \div d

RoundPercent(n, d) == (2 * 1000 * n + d) \div (2 * d)

----------------------------------------------------------------------------
(* Strings.  str.lower().strip() and str.upper() on the strings the model  *)
(* uses.                                                                   *)

LowerStrip(s) ==
    CASE s = "Python" -> "python"
      [] s = " python" -> "python"
      [] s = "Docker" -> "docker"
      [] s = "AWS" -> "aws"
      [] OTHER -> s

Upper(s) ==
    CASE s = "covered" -> "COVERED"
      [] s = "Missing" -> "MISSING"
      [] s = "partial" -> "PARTIAL"
      [] s = "maybe" -> "MAYBE"
      [] OTHER -> s

----------------------------------------------------------------------------
(* RAGVerifier *)

\* A JSON value is [t |-> "str" | "num" | "null", v |-> ...].
Str(s) == [t |-> "str", v |-> s]
Num(n) == [t |-> "num", v |-> n]
Null == [t |-> "null", v |-> None]

\* What the collaborator can do with one request.
\*   api_error:   chat.completions.create raises
\*   not_json:    the content is not JSON
\*   json_array:  the content is a JSON array (without the string "decision")
\*   json_number: the content is a JSON number
\*   object:      the content is a JSON object with the fields of "fields"
BadResponses ==
    { [kind |-> "api_error"],
      [kind |-> "not_json"],
      [kind |-> "json_array"],
      [kind |-> "json_number"],
      [kind |-> "object", fields |-> [reasoning |-> Str("no verdict")]],
      [kind |-> "object", fields |-> [decision |-> Null, confidence |-> Num(2400)]],
      [kind |-> "object", fields |-> [decision |-> Str("maybe"), confidence |-> Num(1500)]],
      [kind |-> "object", fields |-> [decision |-> Str("covered"), confidence |-> Str("high")]] }

GoodResponses ==
    { [kind |-> "object",
       fields |-> [decision |-> Str("covered"), confidence |-> Num(2550),
                   reasoning |-> Str("shown in a project"), evidence |-> Str("quote")]],
      [kind |-> "object", fields |-> [decision |-> Str("Missing")]] }

OddResponses ==
    { [kind |-> "object",
       fields |-> [decision |-> Str("partial"), confidence |-> Num(1800),
                   reasoning |-> Str("related skill only")]],
      [kind |-> "object",
       fields |-> [decision |-> Str("COVERED"), confidence |-> Num(4500),
                   reasoning |-> Str("certain"), evidence |-> Null]] }

Responses == BadResponses \cup GoodResponses \cup OddResponses

NoResponse == [kind |-> "not_called"]

THRESHOLD_REASONING == "Threshold-based decision"

\* _threshold_fallback with ">" for ">=".
ThresholdFallbackStrict(score) ==
    [decision |-> IF score > FALLBACK_THRESHOLD THEN "COVERED" ELSE "MISSING",
     confidence |-> 30 * Round2(Min(Abs(score - FALLBACK_THRESHOLD) * 2, 1000)),
     reasoning |-> THRESHOLD_REASONING,
     evidence |-> None]

ThresholdFallback(score) ==
    [decision |-> IF score >= FALLBACK_THRESHOLD THEN "COVERED" ELSE "MISSING",
     confidence |-> 30 * Round2(Min(Abs(score - FALLBACK_THRESHOLD) * 2, 1000)),
     reasoning |-> THRESHOLD_REASONING,
     evidence |-> None]

Return(v) == [kind |-> "return", value |-> v]
Raise(e) == [kind |-> "raise", exc |-> e]

ACCEPTED_DECISIONS == {"COVERED", "MISSING", "PARTIAL"}

\* The result dict once "decision" is known to be an accepted string: the
\* defaults of lines 95-100, then the log line 102, whose ":.2f" raises on a
\* confidence that is no number.
ValidatedResult(f) ==
    LET conf == IF "confidence" \in DOMAIN f THEN f.confidence ELSE Num(DEFAULT_CONFIDENCE)
        reas == IF "reasoning" \in DOMAIN f THEN f.reasoning.v ELSE "AI verification completed"
        base == [decision |-> Upper(f.decision.v), confidence |-> conf.v, reasoning |-> reas]
    IN  IF conf.t # "num" THEN Raise("ValueError")
        ELSE IF "evidence" \in DOMAIN f
             THEN Return([decision |-> base.decision, confidence |-> base.confidence,
                          reasoning |-> base.reasoning, evidence |-> f.evidence.v])
             ELSE Return(base)

\* The body of the try statement, lines 73-103.
TryBody(resp, score) ==
    CASE resp.kind = "api_error" -> Raise("APIError")
      [] resp.kind = "not_json" -> Raise("JSONDecodeError")
      [] resp.kind = "json_array" -> Return(ThresholdFallback(score))
      [] resp.kind = "json_number" -> Raise("TypeError")
      [] resp.kind = "object" ->
            IF "decision" \notin DOMAIN resp.fields
            THEN Return(ThresholdFallback(score))
            ELSE IF resp.fields.decision.t # "str"
            THEN Raise("AttributeError")
            ELSE IF Upper(resp.fields.decision.v) \notin ACCEPTED_DECISIONS
            THEN Return(ThresholdFallback(score))
            ELSE ValidatedResult(resp.fields)

\* verify_skill without its "except Exception" clause.
VerifySkillNoCatchAll(hasClient, resp, score) ==
    IF ~hasClient THEN Return(ThresholdFallback(score))
    ELSE LET o == TryBody(resp, score)
         IN  IF o.kind = "raise" /\ o.exc = "JSONDecodeError"
             THEN Return(ThresholdFallback(score))
             ELSE o

\* verify_skill: a result, or the exception that leaves it.
VerifySkill(hasClient, resp, score) ==
    IF ~hasClient THEN Return(ThresholdFallback(score))
    ELSE LET o == TryBody(resp, score)
         IN  IF o.kind = "raise" THEN Return(ThresholdFallback(score)) ELSE o

----------------------------------------------------------------------------
(* Helpers on sequences and dicts. *)

Range(s) == {s[i] : i \in DOMAIN s}

\* sum(1 for x in s if P(x)), P given as the set of the elements that count
Count(s, good) == Cardinality({i \in DOMAIN s : s[i] \in good})

\* s[:n]
Prefix(s, n) == SubSeq(s, 1, Min(n, Len(s)))

\* [r["skill"] for r in s]
SkillsOf(s) == [i \in DOMAIN s |-> s[i].skill]

\* d.get(key), for the key "evidence"
GetEvidence(d) == IF "evidence" \in DOMAIN d THEN d.evidence ELSE None

\* x or y
Or(x, y) == IF x = None \/ x = "" THEN y ELSE x

\* All sequences over S of length at most n.
SeqsUpTo(S, n) == UNION {[1..k -> S] : k \in 0..n}

\* A dict as its <<key, value>> pairs in insertion order: d[key] = value
\* keeps the place of a key the dict already has and replaces its value.
DictHas(d, key) == \E i \in DOMAIN d : d[i][1] = key
DictGet(d, key) == d[CHOOSE i \in DOMAIN d : d[i][1] = key][2]
DictPut(d, key, value) ==
    IF DictHas(d, key)
    THEN [i \in DOMAIN d |-> IF d[i][1] = key THEN <<key, value>> ELSE d[i]]
    ELSE Append(d, <<key, value>>)
DictValues(d) == [i \in DOMAIN d |-> d[i][2]]

\* {s.lower().strip(): s for s in skills}, line 143
RECURSIVE ResumeLower(_)
ResumeLower(skills) ==
    IF skills = <<>> THEN <<>>
    ELSE LET n == Len(skills)
         IN  DictPut(ResumeLower(SubSeq(skills, 1, n - 1)),
                     LowerStrip(skills[n]), skills[n])

----------------------------------------------------------------------------
(* The inputs of a run. *)

\* similarity scores, in thousandths
Scores == {0 - 1000, 300, 497, 500, 700, 750}
AggScores == {300, 500, 750}

AggResponses ==
    { [kind |-> "api_error"],
      [kind |-> "object", fields |-> [decision |-> Str("Missing")]],
      [kind |-> "object",
       fields |-> [decision |-> Str("covered"), confidence |-> Num(2550),
                   reasoning |-> Str("shown in a project"), evidence |-> Str("quote")]] }

ReqNames == {"Python", "Docker"}

\* resume chunks: the stripped, non-empty lines of a resume
ChunkSamples ==
    { <<>>,
      <<"Docker and AWS", "Built APIs using Python">> }
AggChunkSamples == { <<"Built APIs using Python">> }

\* request.resume_skills
ResumeSamples ==
    { <<>>,
      <<" python", "AWS">>,
      <<"Python", " python">> }
AggResumeSamples == { <<>>, <<" python", "AWS">> }

NoHit == 0 - 1

\* The ids a top-1 search of the collection can return.
SearchHits == IF DOMAIN collection = {} THEN {NoHit} ELSE DOMAIN collection

NoVerification == [decision |-> None]
NoReport == [kind |-> None]

\* No call of taxonomy.normalize has returned.
NotNormalized == [skill |-> "", canonical |-> None]

\* No call of the extractor has a result to show.
NoExtraction ==
    /\ text = <<>>
    /\ sections = None
    /\ extracted = <<>>
    /\ skill_scores = <<>>
    /\ skill_counts = <<>>
    /\ raw_skills = {}
    /\ final_skills = <<>>
    /\ candidates = <<>>
    /\ normalized = NotNormalized

\* The results of a call of the extractor that has returned.
ExtractionDropped ==
    /\ text' = <<>>
    /\ sections' = None
    /\ extracted' = <<>>
    /\ skill_scores' = <<>>
    /\ skill_counts' = <<>>
    /\ raw_skills' = {}
    /\ final_skills' = <<>>
    /\ candidates' = <<>>
    /\ normalized' = NotNormalized

\* generator.py line 8: _skill_extractor = None until the first use.
ExtractorNotConstructed ==
    /\ taxonomy = None
    /\ nlp = None
    /\ skills_order = <<>>
    /\ NoExtraction

----------------------------------------------------------------------------
(* The state after construction (main.py line 38). *)

\* Nothing has been asked of the service yet.
NoRequest ==
    /\ collection = <<>>
    /\ entry = "idle"
    /\ pc = "idle"
    /\ required = <<>>
    /\ possessed = <<>>
    /\ resume_lower = <<>>
    /\ idx = 1
    /\ needs_semantic = <<>>
    /\ covered_skills = <<>>
    /\ missing_skills = <<>>
    /\ borderline_cases = <<>>
    /\ exact_matches = 0
    /\ best_score = 0
    /\ best_match = ""
    /\ content = NoResponse
    /\ verification = NoVerification
    /\ report = NoReport
    /\ failure = ""

Init == client \in BOOLEAN /\ NoRequest /\ ExtractorNotConstructed

Idle == pc = "idle"

\* The locals of a call that has returned or raised.
LocalsDropped ==
    /\ required' = <<>>
    /\ possessed' = <<>>
    /\ resume_lower' = <<>>
    /\ idx' = 1
    /\ needs_semantic' = <<>>
    /\ covered_skills' = <<>>
    /\ missing_skills' = <<>>
    /\ borderline_cases' = <<>>
    /\ exact_matches' = 0
    /\ best_score' = 0
    /\ best_match' = ""
    /\ content' = NoResponse
    /\ verification' = NoVerification

\* A call begins: its locals are fresh.
LocalsFresh ==
    /\ resume_lower' = <<>>
    /\ idx' = 1
    /\ needs_semantic' = <<>>
    /\ covered_skills' = <<>>
    /\ missing_skills' = <<>>
    /\ borderline_cases' = <<>>
    /\ exact_matches' = 0
    /\ best_score' = 0
    /\ best_match' = ""
    /\ content' = NoResponse
    /\ verification' = NoVerification
    /\ report' = NoReport
    /\ failure' = ""

----------------------------------------------------------------------------
(* GapAnalyzer.analyze, called with a skills_list (analyzer.py 64-212). *)

\* client.upsert of the points 0..n-1 into the collection, lines 111-134:
\* a point of an earlier call whose id is n or more stays.
Upserted(old, chunks) ==
    [i \in DOMAIN old \cup {j - 1 : j \in DOMAIN chunks} |->
        IF i < Len(chunks) THEN chunks[i + 1] ELSE old[i]]

\* lines 74-134: the requirements are the skills_list, the resume chunks are
\* indexed in the one named collection.
AnalyzeStart(chunks, skills) ==
    /\ Idle
    /\ entry' = "analyze"
    /\ required' = skills
    /\ possessed' = chunks
    /\ collection' = Upserted(collection, chunks)
    /\ LocalsFresh
    /\ pc' = IF skills = <<>> THEN "report" ELSE "match"
    /\ UNCHANGED client
    /\ UNCHANGED extractor_vars

\* lines 144-151
ClearMatchRecord(jd_text, score, context) ==
    [skill |-> jd_text, score |-> score, match |-> context,
     confidence |-> Min(10 * (score - CLEAR_MATCH_THRESHOLD), ConfDen),
     reasoning |-> "Strong similarity match",
     verification_method |-> "threshold"]

\* lines 155-161
ClearMissRecord(jd_text, score) ==
    [skill |-> jd_text, score |-> score,
     confidence |-> Min(10 * (CLEAR_MISS_THRESHOLD - score), ConfDen),
     reasoning |-> "Low similarity, skill not found in resume",
     verification_method |-> "threshold"]

\* The semantic loop is over and the queued borderline cases are left out.
AfterSemanticSkip(queue) == "report"

\* The for loop of line 137 is over: the verify loop if it has work (line
\* 168), the report otherwise.
AfterSemantic(queue) == IF queue = <<>> THEN "report" ELSE "verify"

\* The tiers of lines 142-165.
AnalyzeTier(score) ==
    IF score >= CLEAR_MATCH_THRESHOLD THEN "covered"
    ELSE IF score <= CLEAR_MISS_THRESHOLD THEN "missing"
    ELSE "borderline"

\* One iteration of the loop of lines 137-165.  The top-1 hit p of the search
\* and its score s are the index's answer; no hit gives score 0, context "".
AnalyzeMatch(p, s) ==
    /\ entry = "analyze" /\ pc = "match"
    /\ idx <= Len(required)
    /\ LET jd_text == required[idx]
           score == IF p = NoHit THEN 0 ELSE s
           context == IF p = NoHit THEN "" ELSE collection[p]
           tier == AnalyzeTier(score)
           queue == IF tier = "borderline"
                    THEN Append(borderline_cases,
                                [skill |-> jd_text, context |-> context, score |-> score])
                    ELSE borderline_cases
       IN  /\ best_score' = score
           /\ best_match' = context
           /\ covered_skills' = IF tier = "covered"
                                THEN Append(covered_skills,
                                            ClearMatchRecord(jd_text, score, context))
                                ELSE covered_skills
           /\ missing_skills' = IF tier = "missing"
                                THEN Append(missing_skills, ClearMissRecord(jd_text, score))
                                ELSE missing_skills
           /\ borderline_cases' = queue
           /\ IF idx = Len(required)
              THEN pc' = AfterSemantic(queue) /\ idx' = 1
              ELSE pc' = "match" /\ idx' = idx + 1
    /\ UNCHANGED <<client, collection, entry, required, possessed, resume_lower,
                   needs_semantic, exact_matches, content, verification, report,
                   failure>>
    /\ UNCHANGED extractor_vars

\* lines 174-186
AnalyzeRagRecord(case, v) ==
    LET base == [skill |-> case.skill, score |-> case.score,
                 confidence |-> v.confidence, reasoning |-> v.reasoning,
                 verification_method |-> "rag"]
    IN  IF v.decision = "COVERED"
        THEN [skill |-> base.skill, score |-> base.score,
              confidence |-> base.confidence, reasoning |-> base.reasoning,
              verification_method |-> base.verification_method,
              match |-> Or(GetEvidence(v), case.context)]
        ELSE base

\* One iteration of the loop of lines 171-186; resp is what the collaborator
\* does with the request (nothing, when there is no client to ask).
AnalyzeVerify(resp) ==
    /\ entry = "analyze" /\ pc = "verify"
    /\ idx <= Len(borderline_cases)
    /\ LET case == borderline_cases[idx]
           asked == IF client THEN resp ELSE NoResponse
           o == VerifySkill(client, asked, case.score)
       IN  /\ IF o.kind = "raise"
              THEN /\ failure' = "verify_skill"
                   /\ pc' = "error"
                   /\ UNCHANGED <<verification, covered_skills, missing_skills, idx>>
              ELSE /\ verification' = o.value
                   /\ covered_skills' =
                        IF o.value.decision = "COVERED"
                        THEN Append(covered_skills, AnalyzeRagRecord(case, o.value))
                        ELSE covered_skills
                   /\ missing_skills' =
                        IF o.value.decision = "COVERED"
                        THEN missing_skills
                        ELSE Append(missing_skills, AnalyzeRagRecord(case, o.value))
                   /\ idx' = idx + 1
                   /\ pc' = IF idx = Len(borderline_cases) THEN "report" ELSE "verify"
                   /\ UNCHANGED failure
    /\ UNCHANGED <<client, collection, entry, required, possessed, resume_lower,
                   needs_semantic, borderline_cases, exact_matches, best_score,
                   best_match, content, report>>
    /\ UNCHANGED extractor_vars

\* generate_roadmap(missing[:5], role): the text is the generator's; the
\* model keeps what it was asked for.
Roadmap(missing) == [skills |-> Prefix(SkillsOf(missing), 5), generated |-> client]

\* round(x / total * 100, 1) if total > 0 else 0
Percentage(x, total) == IF total > 0 THEN RoundPercent(x, total) ELSE 0

\* lines 188-212
AnalyzeReport ==
    /\ entry = "analyze" /\ pc = "report"
    /\ LET total_skills == Len(required)
           threshold == {r \in Range(covered_skills) \cup Range(missing_skills) :
                            r.verification_method = "threshold"}
       IN  report' =
             [match_percentage |-> Percentage(Len(covered_skills), total_skills),
              missing_skills |-> missing_skills,
              covered_skills |-> covered_skills,
              roadmap |-> Roadmap(missing_skills),
              verification_stats |->
                [total_skills |-> total_skills,
                 clear_matches |-> Count(covered_skills, threshold),
                 clear_misses |-> Count(missing_skills, threshold),
                 ai_verified |-> Len(borderline_cases),
                 fast_path_percentage |->
                    Percentage(total_skills - Len(borderline_cases), total_skills)]]
    /\ pc' = "done"
    /\ LocalsDropped
    /\ UNCHANGED <<client, collection, entry, failure>>
    /\ UNCHANGED extractor_vars

----------------------------------------------------------------------------
(* The analyze-gap-lists handler (main.py 128-266). *)

\* lines 138-147: the target skills are what get_required_skills returned.
ListsStart(resume_skills, target_skills) ==
    /\ Idle
    /\ entry' = "lists"
    /\ required' = target_skills
    /\ possessed' = resume_skills
    /\ resume_lower' = ResumeLower(resume_skills)
    /\ idx' = 1
    /\ needs_semantic' = <<>>
    /\ covered_skills' = <<>>
    /\ missing_skills' = <<>>
    /\ borderline_cases' = <<>>
    /\ exact_matches' = 0
    /\ best_score' = 0
    /\ best_match' = ""
    /\ content' = NoResponse
    /\ verification' = NoVerification
    /\ report' = NoReport
    /\ failure' = ""
    /\ pc' = IF target_skills = <<>> THEN "report" ELSE "exact"
    /\ UNCHANGED <<client, collection>>
    /\ UNCHANGED extractor_vars

\* lines 152-157
ExactRecord(target, d) ==
    [skill |-> target, status |-> "covered", match_type |-> "exact",
     matched_with |-> DictGet(d, LowerStrip(target))]

\* One iteration of the loop of lines 149-159; after the last one, lines
\* 161-165.
ListsExact ==
    /\ entry = "lists" /\ pc = "exact"
    /\ idx <= Len(required)
    /\ LET target == required[idx]
           hit == DictHas(resume_lower, LowerStrip(target))
           cov == IF hit THEN Append(covered_skills, ExactRecord(target, resume_lower))
                  ELSE covered_skills
           rest == IF hit THEN needs_semantic ELSE Append(needs_semantic, target)
       IN  /\ covered_skills' = cov
           /\ needs_semantic' = rest
           /\ IF idx = Len(required)
              THEN /\ exact_matches' = Len(cov)
                   /\ idx' = 1
                   /\ pc' = IF rest = <<>> THEN "report" ELSE "semantic"
              ELSE /\ idx' = idx + 1
                   /\ pc' = "exact"
                   /\ UNCHANGED exact_matches
    /\ UNCHANGED <<client, collection, entry, required, possessed, resume_lower,
                   missing_skills, borderline_cases, best_score, best_match,
                   content, verification, report, failure>>
    /\ UNCHANGED extractor_vars

\* lines 166-182 with no resume skill: cosine_similarity has no row to
\* compare with and raises; the handler answers 500 (lines 262-266).
ListsNoEvidence ==
    /\ entry = "lists" /\ pc = "semantic"
    /\ resume_lower = <<>>
    /\ failure' = "cosine_similarity"
    /\ pc' = "error"
    /\ LocalsDropped
    /\ UNCHANGED <<client, collection, entry, report>>
    /\ UNCHANGED extractor_vars

\* lines 189-195
SemanticRecord(target, match, score) ==
    [skill |-> target, status |-> "covered", match_type |-> "semantic",
     matched_with |-> match, confidence |-> 30 * Round2(score)]

\* The tiers of lines 187-204.
ListsTier(score) ==
    IF score >= CLEAR_MATCH_THRESHOLD THEN "covered"
    ELSE IF score >= CLEAR_MISS_THRESHOLD THEN "borderline"
    ELSE "missing"

\* One iteration of the loop of lines 174-204: k is the argmax of the
\* similarities to the resume skills and s its value.
ListsSemantic(k, s) ==
    /\ entry = "lists" /\ pc = "semantic"
    /\ idx <= Len(needs_semantic)
    /\ k \in DOMAIN resume_lower
    /\ LET target == needs_semantic[idx]
           match == DictValues(resume_lower)[k]
           tier == ListsTier(s)
           queue == IF tier = "borderline"
                    THEN Append(borderline_cases,
                                [skill |-> target, context |-> match, score |-> s])
                    ELSE borderline_cases
       IN  /\ best_score' = s
           /\ best_match' = match
           /\ covered_skills' = IF tier = "covered"
                                THEN Append(covered_skills, SemanticRecord(target, match, s))
                                ELSE covered_skills
           /\ missing_skills' = IF tier = "missing"
                                THEN Append(missing_skills,
                                            [skill |-> target, status |-> "missing"])
                                ELSE missing_skills
           /\ borderline_cases' = queue
           /\ IF idx = Len(needs_semantic)
              THEN pc' = AfterSemantic(queue) /\ idx' = 1
              ELSE pc' = "semantic" /\ idx' = idx + 1
    /\ UNCHANGED <<client, collection, entry, required, possessed, resume_lower,
                   needs_semantic, exact_matches, content, verification, report,
                   failure>>
    /\ UNCHANGED extractor_vars

\* lines 221-228
RagCoveredRecord(case, v) ==
    [skill |-> case.skill, status |-> "covered", match_type |-> "rag_verified",
     matched_with |-> case.context,
     confidence |-> IF "confidence" \in DOMAIN v THEN v.confidence ELSE DEFAULT_CONFIDENCE,
     reasoning |-> IF "reasoning" \in DOMAIN v THEN v.reasoning ELSE "AI verified"]

\* lines 230-234
RagMissingRecord(case, v) ==
    [skill |-> case.skill, status |-> "missing",
     reasoning |-> IF "reasoning" \in DOMAIN v THEN v.reasoning ELSE "Not found in resume"]

\* One iteration of the loop of lines 213-234.
ListsVerify(resp) ==
    /\ entry = "lists" /\ pc = "verify"
    /\ idx <= Len(borderline_cases)
    /\ LET case == borderline_cases[idx]
           asked == IF client THEN resp ELSE NoResponse
           o == VerifySkill(client, asked, case.score)
       IN  /\ IF o.kind = "raise"
              THEN /\ failure' = "verify_skill"
                   /\ pc' = "error"
                   /\ UNCHANGED <<verification, covered_skills, missing_skills, idx>>
              ELSE /\ verification' = o.value
                   /\ covered_skills' =
                        IF o.value.decision = "COVERED"
                        THEN Append(covered_skills, RagCoveredRecord(case, o.value))
                        ELSE covered_skills
                   /\ missing_skills' =
                        IF o.value.decision = "COVERED"
                        THEN missing_skills
                        ELSE Append(missing_skills, RagMissingRecord(case, o.value))
                   /\ idx' = idx + 1
                   /\ pc' = IF idx = Len(borderline_cases) THEN "report" ELSE "verify"
                   /\ UNCHANGED failure
    /\ UNCHANGED <<client, collection, entry, required, possessed, resume_lower,
                   needs_semantic, borderline_cases, exact_matches, best_score,
                   best_match, content, report>>
    /\ UNCHANGED extractor_vars

\* lines 236-260
ListsReport ==
    /\ entry = "lists" /\ pc = "report"
    /\ LET total == Len(required)
           rag == {r \in Range(covered_skills) : r.match_type = "rag_verified"}
           rag_verified == Count(covered_skills, rag)
       IN  report' =
             [match_percentage |-> Percentage(Len(covered_skills), total),
              covered_skills |-> covered_skills,
              missing_skills |-> missing_skills,
              target_skills_full |-> required,
              roadmap |-> Roadmap(missing_skills),
              matching_stats |->
                [exact_matches |-> exact_matches,
                 semantic_matches |-> Len(covered_skills) - exact_matches - rag_verified,
                 rag_verified |-> rag_verified,
                 missing |-> Len(missing_skills)]]
    /\ pc' = "done"
    /\ LocalsDropped
    /\ UNCHANGED <<client, collection, entry, failure>>
    /\ UNCHANGED extractor_vars

----------------------------------------------------------------------------
(* RAGVerifier.verify_skill called on its own (rag_verifier.py 15-110). *)

\* similarity_score arguments, in thousandths
VerifyScores == {0 - 1000, 0, 300, 301, 497, 499, 500, 503, 699, 700, 1000, 1200}

\* One call: content is what the collaborator did, verification the result
\* returned, failure the exception that left the call.
VerifySkillCall(resp, score) ==
    /\ Idle
    /\ LET asked == IF client THEN resp ELSE NoResponse
           o == VerifySkill(client, asked, score)
       IN  /\ content' = asked
           /\ IF o.kind = "raise"
              THEN /\ failure' = o.exc
                   /\ pc' = "error"
                   /\ verification' = NoVerification
              ELSE /\ failure' = ""
                   /\ pc' = "done"
                   /\ verification' = o.value
    /\ entry' = "verify_skill"
    /\ best_score' = score
    /\ UNCHANGED <<client, collection, required, possessed, resume_lower, idx,
                   needs_semantic, covered_skills, missing_skills, borderline_cases,
                   exact_matches, best_match, report>>
    /\ UNCHANGED extractor_vars

\* The caller has the report (or the error): the service is idle again.  The
\* collection stays as the call left it.
Respond ==
    /\ pc \in {"done", "error"}
    /\ pc' = "idle"
    /\ entry' = "idle"
    /\ report' = NoReport
    /\ failure' = ""
    /\ LocalsDropped
    /\ ExtractionDropped
    /\ UNCHANGED <<client, collection, taxonomy, nlp, skills_order>>

----------------------------------------------------------------------------
(* The strings of the skill extractor.  A string is a TLA+ string; what the
   code computes from its characters (lower(), split('/'), the fuzzy ratio) is
   tabulated for the strings the model's documents and catalogs can produce,
   and strings the code builds by joining are built here with \o. *)

\* str.lower(): the strings of the model that hold a capital, with their
\* lowercase form; every other string is its own lowercase form.
LowerTable ==
    ("Skills" :> "skills") @@ ("Experience" :> "experience")
    @@ ("Education" :> "education") @@ ("Technical" :> "technical")
    @@ ("Tech" :> "tech") @@ ("Stack" :> "stack")
    @@ ("Experienced" :> "experienced") @@ ("Proficient" :> "proficient")
    @@ ("Used" :> "used") @@ ("I" :> "i") @@ ("Python" :> "python")
    @@ ("PYTHON" :> "python") @@ ("JavaScript" :> "javascript")
    @@ ("Java" :> "java")
    @@ ("TypeScript" :> "typescript") @@ ("JS" :> "js")
    @@ ("TS" :> "ts") @@ ("K8s" :> "k8s")
    @@ ("React" :> "react") @@ ("Docker" :> "docker")
    @@ ("Git" :> "git") @@ ("GitHub" :> "github")
    @@ ("Git/GitHub" :> "git/github") @@ ("JavaScript/TypeScript" :> "javascript/typescript")
    @@ ("Cloud" :> "cloud") @@ ("AWS" :> "aws")
    @@ ("GCP" :> "gcp") @@ ("Kubernets" :> "kubernets")
    @@ ("Clouds" :> "clouds") @@ ("Amazon" :> "amazon")
    @@ ("Web" :> "web") @@ ("Service" :> "service")
    @@ ("Kubernetes" :> "kubernetes") @@ ("PostgreSQL" :> "postgresql")
    @@ ("PostgreSQL 8" :> "postgresql 8") @@ ("PostgreSQL 9" :> "postgresql 9")
    @@ ("Tailwind" :> "tailwind") @@ ("Tailwind CSS" :> "tailwind css")
    @@ ("CSS" :> "css") @@ ("CI/CD" :> "ci/cd")
    @@ ("CI" :> "ci") @@ ("CD" :> "cd")
    @@ ("TCP/IP" :> "tcp/ip") @@ ("TCP" :> "tcp")
    @@ ("IP" :> "ip") @@ ("Amazon Web Services" :> "amazon web services")
    @@ ("Authentication & Authorization" :> "authentication & authorization") @@ ("Authentication" :> "authentication")
    @@ ("Authorization" :> "authorization")

Lower(s) == IF s \in DOMAIN LowerTable THEN LowerTable[s] ELSE s

\* str.split on the delimiters '/', '|', ',' and '&' (re.split of line 322,
\* split('/') of lines 252 and 386), parts stripped: the strings of the model
\* that hold a delimiter, with their parts; any other string is its one part.
\* None of them holds ', ' (line 240).
SplitTable ==
    ("Git/GitHub" :> <<"Git", "GitHub">>)
    @@ ("JavaScript/TypeScript" :> <<"JavaScript", "TypeScript">>)
    @@ ("CI/CD" :> <<"CI", "CD">>)
    @@ ("TCP/IP" :> <<"TCP", "IP">>)
    @@ ("Authentication & Authorization" :> <<"Authentication", "Authorization">>)

HasDelimiter(s) == s \in DOMAIN SplitTable

\* '/' in s
HasSlash(s) == HasDelimiter(s) /\ s # "Authentication & Authorization"

Split(s) == IF HasDelimiter(s) THEN SplitTable[s] ELSE <<s>>

\* sorted(): the canonical names of the model in the order of Python's string
\* comparison (by code point, so capitals before small letters).
SortedNames ==
    << "AWS", "Amazon Web Services", "Authentication & Authorization",
       "CI/CD", "CSS", "Cloud", "Docker", "GCP", "Git", "Git/GitHub", "GitHub",
       "JS", "Java", "JavaScript", "Kubernetes", "PostgreSQL", "PostgreSQL 8",
       "PostgreSQL 9", "Python", "React", "TCP/IP", "Tailwind CSS",
       "TypeScript", "python" >>

Sorted(names) == SelectSeq(SortedNames, LAMBDA n : n \in names)

\* the place of a name in that order
Rank ==
    ("AWS" :> 1) @@ ("Amazon Web Services" :> 2) @@ ("Authentication & Authorization" :> 3)
    @@ ("CI/CD" :> 4) @@ ("CSS" :> 5) @@ ("Cloud" :> 6)
    @@ ("Docker" :> 7) @@ ("GCP" :> 8) @@ ("Git" :> 9)
    @@ ("Git/GitHub" :> 10) @@ ("GitHub" :> 11) @@ ("JS" :> 12)
    @@ ("Java" :> 13) @@ ("JavaScript" :> 14) @@ ("Kubernetes" :> 15)
    @@ ("PostgreSQL" :> 16) @@ ("PostgreSQL 8" :> 17) @@ ("PostgreSQL 9" :> 18)
    @@ ("Python" :> 19) @@ ("React" :> 20) @@ ("TCP/IP" :> 21)
    @@ ("Tailwind CSS" :> 22) @@ ("TypeScript" :> 23) @@ ("python" :> 24)

\* dict lookups
Has(map, key) == key \in DOMAIN map
Put(map, key, value) == (key :> value) @@ map

----------------------------------------------------------------------------
(* SkillTaxonomy (skill_taxonomy.py). *)

\* SKILL_ALIASES, lines 27-196, in the order of the dict: the entries whose
\* key or value the documents and catalogs of the model can produce.
SKILL_ALIASES ==
    << <<"js", "JavaScript">>, <<"javascript", "JavaScript">>,
       <<"ts", "TypeScript">>, <<"typescript", "TypeScript">>,
       <<"py", "Python">>, <<"k8s", "Kubernetes">>,
       <<"containers", "Docker">>,
       <<"postgres", "PostgreSQL">>, <<"postgresql", "PostgreSQL">>,
       <<"amazon web services", "AWS">>, <<"aws", "AWS">>,
       <<"google cloud", "GCP">>, <<"gcp", "GCP">>,
       <<"git", "Git">>, <<"github", "GitHub">>,
       <<"ci/cd", "CI/CD">>, <<"cicd", "CI/CD">>,
       <<"css3", "CSS">>, <<"css", "CSS">>,
       <<"tailwind", "Tailwind CSS">>, <<"tailwindcss", "Tailwind CSS">> >>

EmptyTaxonomy == [skills_set |-> {}, skills_lower_map |-> <<>>]

\* lines 216-223: every skill of the dataset, in its order, enters the set and
\* the lowercase map (a later name with the same lowercase form replaces an
\* earlier one in the map).
RECURSIVE AddDataset(_, _)
AddDataset(t, data) ==
    IF data = <<>> THEN t
    ELSE AddDataset([skills_set |-> t.skills_set \cup {Head(data)},
                     skills_lower_map |->
                        Put(t.skills_lower_map, Lower(Head(data)), Head(data))],
                    Tail(data))

\* lines 226-231: every alias enters the map; a canonical form that is not yet
\* in the set enters the set and the map.
RECURSIVE AddAliases(_, _)
AddAliases(t, aliases) ==
    IF aliases = <<>> THEN t
    ELSE LET alias == Head(aliases)[1]
             canonical == Head(aliases)[2]
             m == Put(t.skills_lower_map, Lower(alias), canonical)
         IN  AddAliases(
                IF canonical \notin t.skills_set
                THEN [skills_set |-> t.skills_set \cup {canonical},
                      skills_lower_map |-> Put(m, Lower(canonical), canonical)]
                ELSE [skills_set |-> t.skills_set, skills_lower_map |-> m],
                Tail(aliases))

\* data/job_dataset.json: whether path.exists() (line 208), and the Skills of
\* its jobs, one after the other (lines 216-218).
MissingFile == [exists |-> FALSE, skills |-> <<>>]
DatasetOf(names) == [exists |-> TRUE, skills |-> names]

\* _load_skills, lines 204-236: a missing dataset returns before the aliases
\* are added and leaves the taxonomy empty.
LoadSkills(data) ==
    IF ~data.exists THEN EmptyTaxonomy
    ELSE AddAliases(AddDataset(EmptyTaxonomy, data.skills), SKILL_ALIASES)

\* normalize, lines 248-269, of a string without outer or repeated
\* whitespace; None if the string is not a key of the map.
\* lines 266-269, given the cleaned string
Lookup(t, cleaned) ==
    IF Has(t.skills_lower_map, cleaned) THEN t.skills_lower_map[cleaned] ELSE None

Normalize(t, skill) == IF skill = "" THEN None ELSE Lookup(t, Lower(skill))

\* is_known_skill, lines 271-273
IsKnownSkill(t, skill) == Normalize(t, skill) # None

----------------------------------------------------------------------------
(* ResumeSegmenter (resume_segmenter.py).  A document is the sequence of its
   lines and a line the sequence of its words; the element ":" stands for a
   colon written straight after the word before it, and <<>> for a blank
   line.  Commas are left out of the words: segment does not look at them and
   _preprocess (skill_extractor.py line 467) turns them into spaces. *)

COLON == ":"

SectionType == {"PRIMARY", "SECONDARY", "TERTIARY", "UNKNOWN"}

\* lines 23-27, every string the patterns match in full
PRIMARY_HEADERS ==
    { "skill", "skills", "technical skill", "technical skills", "technologies",
      "tech stack", "core competencies", "expertise", "programming languages",
      "tools & technologies", "technology stack" }

\* lines 30-33
SECONDARY_HEADERS ==
    { "experience", "work experience", "employment", "professional experience",
      "work history", "project", "projects", "personal project",
      "personal projects", "key projects" }

\* lines 36-40
TERTIARY_HEADERS ==
    { "summary", "profile", "about me", "education", "achievement",
      "achievements", "certification", "certifications", "award", "awards",
      "interest", "interests", "language", "languages", "reference",
      "references", "volunteer", "publication", "publications" }

\* line 45: the openings of a promoted line, each to be followed by ':'
PRIMARY_LINE_OPENINGS ==
    { <<"technologies">>, <<"tech", "stack">>, <<"built", "with">>,
      <<"tools">>, <<"stack">> }

\* line.split(): the colons belong to the words before them
Words(line) == SelectSeq(line, LAMBDA w : w # COLON)

\* line.lower(), as one string
RECURSIVE LineLower(_)
LineLower(line) ==
    IF line = <<>> THEN ""
    ELSE IF Len(line) = 1 THEN Lower(line[1])
    ELSE IF line[2] = COLON THEN Lower(line[1]) \o LineLower(Tail(line))
    ELSE Lower(line[1]) \o " " \o LineLower(Tail(line))

\* .strip(':').strip() of line 105
RECURSIVE StripColons(_)
StripColons(line) ==
    IF line = <<>> THEN line
    ELSE IF line[1] = COLON THEN StripColons(Tail(line))
    ELSE IF line[Len(line)] = COLON THEN StripColons(SubSeq(line, 1, Len(line) - 1))
    ELSE line

\* _detect_header, lines 99-119
DetectHeader(line) ==
    IF Len(Words(line)) > 5 THEN None
    ELSE LET line_lower == LineLower(StripColons(line))
         IN  IF line_lower \in PRIMARY_HEADERS THEN "PRIMARY"
             ELSE IF line_lower \in SECONDARY_HEADERS THEN "SECONDARY"
             ELSE IF line_lower \in TERTIARY_HEADERS THEN "TERTIARY"
             ELSE None

\* _is_primary_line, lines 121-127: the line opens with one of the openings
\* and a colon, or holds "environment" and a colon.
IsPrimaryLine(line) ==
    \/ \E o \in PRIMARY_LINE_OPENINGS :
          /\ Len(line) > Len(o)
          /\ \A i \in DOMAIN o : Lower(line[i]) = o[i]
          /\ line[Len(o) + 1] = COLON
    \/ \E i \in 1..(Len(line) - 1) :
          Lower(line[i]) = "environment" /\ line[i + 1] = COLON

NoSegments == [t \in SectionType |-> <<>>]

\* lines 75-76 and 94-95: a buffer that holds lines becomes one block of its
\* section.
Flush(segments, type, buffer) ==
    IF buffer = <<>> THEN segments
    ELSE [segments EXCEPT ![type] = Append(@, buffer)]

\* A variant of the test of line 82 that keeps every header line.
HeaderAlwaysKept(stripped) == TRUE

\* line 82: if ':' in stripped
HeaderKept(stripped) == COLON \in Range(stripped)

\* A variant of the test of lines 67-68 that skips no line.
NeverSkipped(stripped) == FALSE

\* lines 67-68: if not stripped: continue
Skipped(stripped) == stripped = <<>>

\* The loop of lines 65-95 over the lines left, then the final flush.
RECURSIVE SegmentLines(_, _, _, _)
SegmentLines(lines, segments, current_type, current_buffer) ==
    IF lines = <<>> THEN Flush(segments, current_type, current_buffer)
    ELSE LET stripped == Head(lines)
             new_type == DetectHeader(stripped)
         IN  IF Skipped(stripped)
             THEN SegmentLines(Tail(lines), segments, current_type, current_buffer)
             ELSE IF new_type # None
             THEN SegmentLines(Tail(lines),
                               Flush(segments, current_type, current_buffer),
                               new_type,
                               IF HeaderKept(stripped) THEN <<stripped>> ELSE <<>>)
             ELSE IF IsPrimaryLine(stripped)
             THEN SegmentLines(Tail(lines),
                               [segments EXCEPT !["PRIMARY"] = Append(@, <<stripped>>)],
                               current_type, current_buffer)
             ELSE SegmentLines(Tail(lines), segments, current_type,
                               Append(current_buffer, stripped))

\* A variant of segment in which the lines before the first header count as
\* Primary content.
SegmentFromPrimary(doc) ==
    IF doc = <<>> THEN NoSegments
    ELSE SegmentLines(doc, NoSegments, "PRIMARY", <<>>)

\* segment, lines 49-97.  The document <<>> is the text that is None or
\* empty (not text, line 56); a text of blanks is a document of blank lines.
Segment(doc) ==
    IF doc = <<>> THEN NoSegments
    ELSE SegmentLines(doc, NoSegments, "UNKNOWN", <<>>)

----------------------------------------------------------------------------
(* SkillExtractor (skill_extractor.py): the tables. *)

FUZZY_THRESHOLD == 90
MIN_FUZZY_LENGTH == 4
MAX_NGRAM_SIZE == 4
ANCHOR_WINDOW == 5

\* Scores are in tenths: 1.0 is 10.
EXACT_BASE_SCORE == 10
FUZZY_BASE_SCORE == 8
HIGH_CONFIDENCE == 16
REPEATED_VALID_SCORE == 10
FREQ_BONUS_STEP == 2
FREQ_BONUS_CAP == 4

\* lines 51-58
ANCHOR_WORDS ==
    { "using", "used", "use", "with", "via", "through", "built", "building",
      "developed", "developing", "maintained", "managed", "deployed",
      "shipping", "stack", "technologies", "tools", "framework", "proficient",
      "experienced", "knowledge", "skills", "platform", "language", "library",
      "api" }

\* lines 61-76: the words of the denylist that the documents of the model hold
\* or that name a generic term
DENYLIST ==
    { "experienced", "proficient", "deployment", "tools", "css", "cloud",
      "apis", "api", "database", "databases" }

\* lines 79-86
ABSTRACTION_RULES ==
    << <<"cloud", {"aws", "azure", "gcp", "google cloud"}>>,
       <<"css", {"tailwind css", "bootstrap", "sass", "scss"}>>,
       <<"apis", {"rest apis", "grpc", "graphql", "websockets"}>>,
       <<"api", {"rest apis", "grpc", "graphql", "websockets"}>>,
       <<"database", {"postgresql", "mongodb", "mysql", "redis", "sql server"}>>,
       <<"databases", {"postgresql", "mongodb", "mysql", "redis", "sql server"}>> >>

\* lines 89-170: the entries the documents and catalogs of the model can reach
CANONICAL_SKILLS ==
    ("git" :> "Git") @@ ("github" :> "GitHub")
    @@ ("javascript" :> "JavaScript") @@ ("js" :> "JavaScript")
    @@ ("typescript" :> "TypeScript") @@ ("ts" :> "TypeScript")
    @@ ("react" :> "React")
    @@ ("python" :> "Python") @@ ("py" :> "Python")
    @@ ("java" :> "Java")
    @@ ("postgresql" :> "PostgreSQL") @@ ("postgres" :> "PostgreSQL")
    @@ ("aws" :> "AWS") @@ ("amazon web services" :> "AWS")
    @@ ("gcp" :> "GCP") @@ ("google cloud" :> "GCP")
    @@ ("docker" :> "Docker")
    @@ ("kubernetes" :> "Kubernetes") @@ ("k8s" :> "Kubernetes")
    @@ ("ci/cd" :> "CI/CD") @@ ("cicd" :> "CI/CD")
    @@ ("authentication" :> "Authentication & Authorization")
    @@ ("authorization" :> "Authentication & Authorization")
    @@ ("tailwind" :> "Tailwind CSS") @@ ("tailwind css" :> "Tailwind CSS")

----------------------------------------------------------------------------
(* The spaCy pipeline self._nlp, a collaborator: what it answers for the words
   of the model. *)

\* token.is_stop, line 378
STOP_WORDS == {"in", "and", "using", "used", "with", "i", "have", "over", "the", "via"}
IsStop(token) == Lower(token) \in STOP_WORDS

\* token.is_punct
IsPunct(token) == token = "/"

\* token.lemma_, line 461
Lemma(token) ==
    CASE token \in {"Used", "used", "using", "uses"} -> "use"
      [] token \in {"Built", "built"} -> "build"
      [] OTHER -> token

\* The tokens of one word of a preprocessed block: the colon has become a
\* space (line 467); a word with a slash is one token, or, when the tokenizer
\* splits at the infix, three.
Tokenize(word, infix) ==
    IF word = COLON THEN <<>>
    ELSE IF HasSlash(word) /\ infix
         THEN <<Split(word)[1], "/", Split(word)[2]>>
         ELSE <<word>>

RECURSIVE Flatten(_)
Flatten(seqs) == IF seqs = <<>> THEN <<>> ELSE Head(seqs) \o Flatten(Tail(seqs))

\* doc = self._nlp(self._preprocess(text)), lines 346-347: the tokens of the
\* lines of the block, one after the other.
Doc(block, infix) ==
    LET words == Flatten(block)
    IN  Flatten([i \in DOMAIN words |-> Tokenize(words[i], infix)])

----------------------------------------------------------------------------
(* _generate_candidates, lines 370-412.  A candidate is its text, the
   lowercase of its text, and its span in the tokens, counted from 0. *)

Candidate(t, l, from, to) == [text |-> t, lower |-> l, start |-> from, end |-> to]

\* A variant of TokenCandidates that also offers the pieces of a camel-case
\* token, as substring matching would.
TokenCandidatesAndPieces(tokens, i) ==
    LET t == tokens[i]
        parts == IF HasSlash(t)
                 THEN SelectSeq(Split(t), LAMBDA q : Len(q) >= 2)
                 ELSE <<>>
        pieces == IF t = "JavaScript" THEN <<"Java", "Script">> ELSE <<>>
    IN  IF IsStop(t) \/ IsPunct(t) THEN <<>>
        ELSE (IF Len(t) >= 2 THEN <<Candidate(t, Lower(t), i - 1, i)>> ELSE <<>>)
             \o [k \in DOMAIN parts |-> Candidate(parts[k], Lower(parts[k]), i - 1, i)]
             \o [k \in DOMAIN pieces |-> Candidate(pieces[k], Lower(pieces[k]), i - 1, i)]

\* lines 376-390, for the token at place i (from 1)
TokenCandidates(tokens, i) ==
    LET t == tokens[i]
        parts == IF HasSlash(t)
                 THEN SelectSeq(Split(t), LAMBDA q : Len(q) >= 2)
                 ELSE <<>>
    IN  IF IsStop(t) \/ IsPunct(t) THEN <<>>
        ELSE (IF Len(t) >= 2 THEN <<Candidate(t, Lower(t), i - 1, i)>> ELSE <<>>)
             \o [k \in DOMAIN parts |-> Candidate(parts[k], Lower(parts[k]), i - 1, i)]

\* A variant of SlashCompounds that goes on at the next token after a
\* compound, so that the compounds of a chain overlap.
RECURSIVE SlashCompoundsOverlapping(_, _)
SlashCompoundsOverlapping(tokens, i) ==
    IF ~(i < Len(tokens) - 2) THEN <<>>
    ELSE IF tokens[i + 2] = "/"
         THEN <<Candidate(tokens[i + 1] \o "/" \o tokens[i + 3],
                          Lower(tokens[i + 1]) \o "/" \o Lower(tokens[i + 3]),
                          i, i + 3)>>
              \o SlashCompoundsOverlapping(tokens, i + 1)
         ELSE SlashCompoundsOverlapping(tokens, i + 1)

\* lines 393-403, from the place i (from 0) on
RECURSIVE SlashCompounds(_, _)
SlashCompounds(tokens, i) ==
    IF ~(i < Len(tokens) - 2) THEN <<>>
    ELSE IF tokens[i + 2] = "/"
         THEN <<Candidate(tokens[i + 1] \o "/" \o tokens[i + 3],
                          Lower(tokens[i + 1]) \o "/" \o Lower(tokens[i + 3]),
                          i, i + 3)>>
              \o SlashCompounds(tokens, i + 3)
         ELSE SlashCompounds(tokens, i + 1)

\* ' '.join(tokens[i:i+n]), and its lowercase
RECURSIVE Join(_)
Join(ts) ==
    IF ts = <<>> THEN ""
    ELSE IF Len(ts) = 1 THEN ts[1]
    ELSE ts[1] \o " " \o Join(Tail(ts))

LowerAll(ts) == [i \in DOMAIN ts |-> Lower(ts[i])]

\* lines 406-410, for one n
NGrams(tokens, n) ==
    LET grams == [i \in 1..(Len(tokens) - n + 1) |->
                    Candidate(Join(SubSeq(tokens, i, i + n - 1)),
                              Join(LowerAll(SubSeq(tokens, i, i + n - 1))),
                              i - 1, i - 1 + n)]
    IN  IF Len(tokens) < n THEN <<>>
        ELSE SelectSeq(grams, LAMBDA c : Len(c.text) >= 3)

GenerateCandidates(tokens) ==
    Flatten([i \in DOMAIN tokens |-> TokenCandidates(tokens, i)])
    \o SlashCompounds(tokens, 0)
    \o Flatten([n \in 1..(MAX_NGRAM_SIZE - 1) |-> NGrams(tokens, n + 1)])

----------------------------------------------------------------------------
(* _match, lines 414-445. *)

\* The longest common subsequence of a candidate and a taxonomy skill, which
\* fuzz.ratio is computed from: the pairs of the model with a ratio of 75 or
\* more; any other pair is taken to share nothing.
LcsTable ==
    (<<"Kubernets", "Kubernetes">> :> 9)
    @@ (<<"PostgreSQL 7", "PostgreSQL 8">> :> 11)
    @@ (<<"PostgreSQL 7", "PostgreSQL 9">> :> 11)
    @@ (<<"PostgreSQL 7", "PostgreSQL">> :> 10)
    @@ (<<"Git/GitHub", "GitHub">> :> 6)
    @@ (<<"Clouds", "Cloud">> :> 5)
    @@ (<<"Amazon Web Service", "Amazon Web Services">> :> 18)

LcsLength(candidate, skill) ==
    IF <<candidate, skill>> \in DOMAIN LcsTable
    THEN LcsTable[<<candidate, skill>>]
    ELSE 0

\* fuzz.ratio(a, b) = 100 * 2 * lcs / (len(a) + len(b)); the comparisons on it
\* are made without dividing.
RatioAtLeast(candidate, skill, cutoff) ==
    200 * LcsLength(candidate, skill) >= cutoff * (Len(candidate) + Len(skill))

RatioAbove(candidate, skill, best) ==
    LcsLength(candidate, skill) * (Len(candidate) + Len(best))
        > LcsLength(candidate, best) * (Len(candidate) + Len(skill))

\* The loop of process.extractOne over the skills left: the first skill of
\* the list with the highest ratio that reaches the cutoff.
RECURSIVE BestOf(_, _, _)
BestOf(candidate, choices, best) ==
    IF choices = <<>> THEN best
    ELSE LET skill == Head(choices)
         IN  BestOf(candidate, Tail(choices),
                IF /\ RatioAtLeast(candidate, skill, FUZZY_THRESHOLD)
                   /\ (best = None \/ RatioAbove(candidate, skill, best))
                THEN skill ELSE best)

\* process.extractOne, lines 433-438.  A candidate that shares nothing with
\* any skill has no ratio above 0 and no best skill.
ExtractOne(candidate, choices) ==
    IF \A key \in DOMAIN LcsTable : key[1] # candidate THEN None
    ELSE BestOf(candidate, choices, None)

NoMatch == [match_type |-> None, canonical |-> None]

Match(t, order, candidate) ==
    IF candidate.lower \in DENYLIST THEN NoMatch
    ELSE IF Has(CANONICAL_SKILLS, candidate.lower)
    THEN [match_type |-> "EXACT", canonical |-> CANONICAL_SKILLS[candidate.lower]]
    ELSE IF Lookup(t, candidate.lower) # None
    THEN [match_type |-> "EXACT", canonical |-> Lookup(t, candidate.lower)]
    ELSE IF Len(candidate.text) < MIN_FUZZY_LENGTH THEN NoMatch
    ELSE LET skill_name == ExtractOne(candidate.text, order)
         IN  IF skill_name # None
             THEN [match_type |-> "FUZZY", canonical |-> skill_name]
             ELSE NoMatch

----------------------------------------------------------------------------
(* _check_anchoring and _process_text_block, lines 344-368 and 447-464. *)

\* A variant of _check_anchoring that looks only at the tokens before the span.
CheckAnchoringBefore(tokens, start, end) ==
    LET context_start == IF start - ANCHOR_WINDOW > 0 THEN start - ANCHOR_WINDOW ELSE 0
    IN  \E i \in context_start..(start - 1) :
            \/ Lower(tokens[i + 1]) \in ANCHOR_WORDS
            \/ Lower(Lemma(tokens[i + 1])) \in ANCHOR_WORDS

\* lines 447-464, over the tokens at the places start..end-1 (from 0)
CheckAnchoring(tokens, start, end) ==
    LET context_start == IF start - ANCHOR_WINDOW > 0 THEN start - ANCHOR_WINDOW ELSE 0
        context_end == Min(Len(tokens), end + ANCHOR_WINDOW)
    IN  \E i \in context_start..(context_end - 1) :
            /\ ~(start <= i /\ i < end)
            /\ \/ Lower(tokens[i + 1]) \in ANCHOR_WORDS
               \/ Lower(Lemma(tokens[i + 1])) \in ANCHOR_WORDS

\* A variant of the multiplier that gives every section but the Primary ones
\* the trust of a Secondary section.
Multiplier2TwoLevels(section_type) ==
    IF section_type = "PRIMARY" THEN 4 ELSE 2

\* line 352, in halves
Multiplier2(section_type) ==
    IF section_type = "PRIMARY" THEN 4
    ELSE IF section_type = "SECONDARY" THEN 2
    ELSE 1

\* lines 354-366 for one candidate: the <<canonical, final_score>> it adds to
\* the results, if any
Scored(t, order, tokens, section_type, candidate) ==
    LET m == Match(t, order, candidate)
        base_score == IF m.match_type = "EXACT" THEN EXACT_BASE_SCORE ELSE FUZZY_BASE_SCORE
    IN  IF m.match_type = None THEN <<>>
        ELSE IF /\ section_type = "SECONDARY"
                /\ ~CheckAnchoring(tokens, candidate.start, candidate.end)
        THEN <<>>
        ELSE << <<m.canonical, (base_score * Multiplier2(section_type)) \div 2,
                  candidate.text>> >>

ProcessTextBlock(t, order, block, section_type, infix) ==
    LET tokens == Doc(block, infix)
        found == GenerateCandidates(tokens)
    IN  Flatten([i \in DOMAIN found |->
                    Scored(t, order, tokens, section_type, found[i])])

----------------------------------------------------------------------------
(* _post_process and what it calls, lines 228-342. *)

\* _to_canonical, lines 325-342
ToCanonical(t, skill) ==
    IF Has(CANONICAL_SKILLS, Lower(skill)) THEN CANONICAL_SKILLS[Lower(skill)]
    ELSE Normalize(t, skill)

\* A variant of _split_composite that splits nothing.
SplitCompositeWhole(skill) == <<skill>>

\* _split_composite, lines 314-323
SplitComposite(skill) ==
    IF Has(CANONICAL_SKILLS, Lower(skill)) THEN <<skill>> ELSE Split(skill)

\* lines 299-307: the parts of two or more characters that _to_canonical
\* resolves, resolved.
Canonicalized(t, parts) ==
    {ToCanonical(t, part) : part \in {q \in Range(parts) : Len(q) >= 2}} \ {None}

\* lines 253-259: the parts of two or more characters that the taxonomy
\* resolves, resolved.
Normalized(t, parts) ==
    {Normalize(t, part) : part \in {q \in Range(parts) : Len(q) >= 2}} \ {None}

\* _normalize_and_deduplicate, lines 287-312
NormalizeAndDeduplicate(t, skills) ==
    Sorted(UNION {Canonicalized(t, SplitComposite(skill)) :
                    skill \in skills})

\* lines 238-261: a skill with a slash that the taxonomy does not know is
\* replaced by its parts that the taxonomy knows.
Expanded(t, skills) ==
    UNION {IF HasSlash(skill) /\ ~IsKnownSkill(t, skill)
           THEN Normalized(t, Split(skill))
           ELSE {skill} : skill \in skills}

\* lines 264-270: one skill is kept for every lowercase form.  Which one
\* depends on the iteration order of the set; the canonical name of what is
\* kept does not, as it is looked up by the lowercase form.
Deduped(expanded) ==
    {skill \in expanded :
        \A other \in expanded :
            Lower(other) = Lower(skill) => Rank[skill] <= Rank[other]}

\* lines 273-283
ToRemove(deduped) ==
    LET skills_lower == {Lower(x) : x \in deduped}
    IN  {x \in deduped :
            \E r \in Range(ABSTRACTION_RULES) :
                /\ r[1] \in skills_lower
                /\ r[2] \cap skills_lower # {}
                /\ Lower(x) = r[1]}

PostProcess(t, skills) ==
    LET deduped == Deduped(Expanded(t, skills))
    IN  NormalizeAndDeduplicate(t, deduped \ ToRemove(deduped))

----------------------------------------------------------------------------
(* extract, lines 186-226. *)

SectionOrder == <<"PRIMARY", "SECONDARY", "TERTIARY", "UNKNOWN">>

\* lines 200-202: what the blocks of every section add, section by section
Extracted(t, order, segments, infix) ==
    Flatten([k \in DOMAIN SectionOrder |->
        Flatten([b \in DOMAIN segments[SectionOrder[k]] |->
            ProcessTextBlock(t, order, segments[SectionOrder[k]][b],
                             SectionOrder[k], infix)])])

\* defaultdict(float) and defaultdict(int), lines 196-197: a skill not yet
\* seen reads as 0
Read(d, skill) == IF Has(d, skill) THEN d[skill] ELSE 0

\* A variant of SkillScores in which every occurrence adds its score to the
\* stored one.
RECURSIVE SkillScoresAdded(_, _)
SkillScoresAdded(pairs, scores) ==
    IF pairs = <<>> THEN scores
    ELSE LET skill == Head(pairs)[1]
             score == Head(pairs)[2]
         IN  SkillScoresAdded(Tail(pairs),
                              Put(scores, skill, Read(scores, skill) + score))

\* line 205, pair after pair: skill_scores[skill] = max(skill_scores[skill], score)
RECURSIVE SkillScores(_, _)
SkillScores(pairs, scores) ==
    IF pairs = <<>> THEN scores
    ELSE LET skill == Head(pairs)[1]
             score == Head(pairs)[2]
         IN  SkillScores(Tail(pairs),
                         Put(scores, skill, Max(Read(scores, skill), score)))

\* line 206, pair after pair: skill_counts[skill] += 1
RECURSIVE SkillCounts(_, _)
SkillCounts(pairs, counts) ==
    IF pairs = <<>> THEN counts
    ELSE LET skill == Head(pairs)[1]
         IN  SkillCounts(Tail(pairs), Put(counts, skill, Read(counts, skill) + 1))

\* lines 213-219
Accepted(base_section_score, count) ==
    LET freq_bonus == Min(FREQ_BONUS_CAP, FREQ_BONUS_STEP * count)
        total_score == base_section_score + freq_bonus
        is_high_conf == total_score >= HIGH_CONFIDENCE
        is_repeated_valid == count >= 2 /\ base_section_score >= REPEATED_VALID_SCORE
    IN  is_high_conf \/ is_repeated_valid

\* lines 209-220
RawSkills(scores, counts) ==
    {skill \in DOMAIN counts : Accepted(scores[skill], counts[skill])}

\* line 190: not text or not text.strip()
IsBlank(doc) == \A i \in DOMAIN doc : doc[i] = <<>>

\* extract: what it computes on the way and what it returns
ExtractResult(t, order, infix, doc) ==
    IF IsBlank(doc)
    THEN [sections |-> None, extracted |-> <<>>, skill_scores |-> <<>>,
          skill_counts |-> <<>>, raw_skills |-> {}, final_skills |-> <<>>]
    ELSE LET segments == Segment(doc)
             pairs == Extracted(t, order, segments, infix)
             scores == SkillScores(pairs, <<>>)
             counts == SkillCounts(pairs, <<>>)
             raw == RawSkills(scores, counts)
         IN  [sections |-> segments, extracted |-> pairs, skill_scores |-> scores,
              skill_counts |-> counts, raw_skills |-> raw,
              final_skills |-> PostProcess(t, raw)]

----------------------------------------------------------------------------
(* The inputs of the extractor. *)

\* the longest document, in lines
MaxLines == 2

\* The datasets of the extractor: a missing file, and a catalog.
Datasets ==
    { MissingFile,
      DatasetOf(<<"PostgreSQL 8", "PostgreSQL 9", "TCP/IP", "Git/GitHub", "Cloud",
                  "Amazon Web Services">>) }

RECURSIVE Reverse(_)
Reverse(q) == IF q = <<>> THEN <<>> ELSE Append(Reverse(Tail(q)), Head(q))

\* list(self.taxonomy.skills), line 435: the order in which a set of strings
\* is iterated depends on the hash seed of the process.  Two of the orders.
Orders(t) == {Sorted(t.skills_set), Reverse(Sorted(t.skills_set))}

LineSamples ==
    { <<"Skills">>,
      <<"Experience">>,
      <<"Experienced", "in", "Python", "JavaScript", "and", "Docker">>,
      <<"JS", "and", "K8s", "deployment">>,
      <<"PYTHON">>,
      <<"python">>,
      <<"JavaScript", "TypeScript", "React">>,
      <<"Git", "Git/GitHub", "GitHub", "JavaScript/TypeScript">>,
      <<"Cloud">>,
      <<"Cloud", "and", "AWS">>,
      <<"Used", "Python", "and", "python">>,
      <<"Kubernets", "PostgreSQL", "7">>,
      <<"css3", "Tailwind">>,
      <<"Clouds", "Amazon", "Web", "Service">> }

Documents == SeqsUpTo(LineSamples, MaxLines)

\* the raw sets _post_process is called with on its own
RawNames ==
    { "Cloud", "AWS", "GCP", "CSS", "Tailwind CSS", "CI/CD", "TCP/IP",
      "Git/GitHub", "Amazon Web Services", "Authentication & Authorization" }

\* the longest document of slash compounds, in lines
MaxCompoundLines == 2

\* The lines of the documents of slash compounds: a Primary header, the
\* compound of the alias table and the compound of the catalog, alone and
\* next to another skill, and a misspelt skill.
CompoundLineSamples ==
    { <<"Skills">>,
      <<"CI/CD">>,
      <<"TCP/IP">>,
      <<"Python", "CI/CD">>,
      <<"TCP/IP", "Docker">>,
      <<"Kubernets">> }

CompoundDocuments == SeqsUpTo(CompoundLineSamples, MaxCompoundLines)

\* the longest block of a slash chain, in words
MaxChainWords == 4

\* Words of a block with slashes: three names, the slash standing on its own
\* (as in "CI / CD / IP") and a name that holds one.
ChainWords == {"CI", "CD", "IP", "/", "CI/CD"}

\* The blocks of one line of up to MaxChainWords words.
ChainBlocks == {<<line>> : line \in SeqsUpTo(ChainWords, MaxChainWords)}

\* the longest document of the trust levels, in lines
MaxTrustLines == 3

\* The lines of the documents of the trust levels: a header of each trust
\* level, a skill named exactly and a skill misspelt after an anchor word, and
\* a skill named exactly with no anchor word.
TrustLineSamples ==
    { <<"Skills">>,
      <<"Experience">>,
      <<"Education">>,
      <<"using", "Python">>,
      <<"using", "Kubernets">>,
      <<"Kubernetes">> }

TrustDocuments == SeqsUpTo(TrustLineSamples, MaxTrustLines)

\* the longest dataset of the taxonomy on its own, in skills
MaxCatalog == 2

\* Skills of a dataset: two names that differ only in case, a name whose
\* lowercase form is an alias of another canonical name, and a name of its
\* own.
CatalogNames == {"Python", "python", "JS", "TCP/IP"}

\* The datasets: a missing file, and every list of up to MaxCatalog skills.
Catalogs ==
    {MissingFile} \cup {DatasetOf(q) : q \in SeqsUpTo(CatalogNames, MaxCatalog)}

\* what normalize is called with: every canonical name, and three other strings
NormalizeInputs(t) == t.skills_set \cup {"", "js", "PYTHON"}

\* the longest document given to the segmenter alone, in lines
MaxSegmentLines == 3

\* The lines of the documents of the segmenter: a blank line, headers of the
\* three kinds, a header with a colon, a line that is promoted to Primary,
\* and two lines of content.
SegmentLineSamples ==
    { <<>>,
      <<"Skills">>,
      <<"Tech", "Stack", COLON>>,
      <<"Experience">>,
      <<"Education">>,
      <<"Tech", "Stack", COLON, "Docker">>,
      <<"Used", "Python">>,
      <<"python">> }

SegmentDocuments == SeqsUpTo(SegmentLineSamples, MaxSegmentLines)

\* the most words between an anchor word and a skill
MaxGap == 5

\* k words that are neither a skill nor an anchor
Filler(k) == [i \in 1..k |-> "daily"]

\* A line that names a skill, with a word k words before or after it.
GapLine(word, k, skill, before) ==
    IF before THEN <<word>> \o Filler(k) \o skill
    ELSE skill \o Filler(k) \o <<word>>

\* The documents of the anchoring rule: a header or none, and one line that
\* names a skill with an anchor word ("Used", literally; "uses", by its
\* lemma; "via") or another word ("timelines") up to MaxGap words away; and
\* the line without any anchor word.
AnchorDocuments ==
    { header \o <<GapLine(word, k, skill, before)>> :
        header \in {<<>>, << <<"Skills">> >>, << <<"Experience">> >>},
        word \in {"Used", "uses", "via", "timelines"},
        k \in 0..MaxGap,
        skill \in {<<"Python">>, <<"Amazon", "Web", "Service">>},
        before \in BOOLEAN }
    \cup { << <<"Experience">>,
             <<"I", "have", "advanced", "control", "over", "timelines">> >> }

----------------------------------------------------------------------------
(* The extractor: construction and calls. *)

\* _get_skill_extractor, generator.py lines 10-16, and SkillExtractor.__init__,
\* lines 172-177: the taxonomy is loaded from the dataset and the spaCy
\* pipeline is loaded.  The extractor makes no use of the API client.
InitExtract ==
    /\ client = FALSE
    /\ NoRequest
    /\ \E data \in Datasets : taxonomy = LoadSkills(data)
    /\ nlp \in [infix : BOOLEAN]
    /\ skills_order \in Orders(taxonomy)
    /\ NoExtraction

\* extract(text) of a document
ExtractCall(doc) ==
    /\ Idle
    /\ LET r == ExtractResult(taxonomy, skills_order, nlp.infix, doc)
       IN  /\ text' = doc
           /\ sections' = r.sections
           /\ extracted' = r.extracted
           /\ skill_scores' = r.skill_scores
           /\ skill_counts' = r.skill_counts
           /\ raw_skills' = r.raw_skills
           /\ final_skills' = r.final_skills
    /\ entry' = "extract"
    /\ pc' = "done"
    /\ UNCHANGED <<client, collection, required, possessed, resume_lower, idx,
                   needs_semantic, covered_skills, missing_skills,
                   borderline_cases, exact_matches, best_score, best_match,
                   content, verification, report, failure, taxonomy, nlp,
                   skills_order, candidates, normalized>>

\* SkillTaxonomy(), skill_taxonomy.py lines 198-202, within the construction of
\* the extractor.
InitTaxonomy ==
    /\ client = FALSE
    /\ NoRequest
    /\ \E data \in Catalogs : taxonomy = LoadSkills(data)
    /\ nlp \in [infix : BOOLEAN]
    /\ skills_order \in Orders(taxonomy)
    /\ NoExtraction

\* taxonomy.normalize(skill)
NormalizeCall(skill) ==
    /\ Idle
    /\ normalized' = [skill |-> skill, canonical |-> Normalize(taxonomy, skill)]
    /\ entry' = "normalize"
    /\ pc' = "done"
    /\ UNCHANGED <<client, collection, required, possessed, resume_lower, idx,
                   needs_semantic, covered_skills, missing_skills,
                   borderline_cases, exact_matches, best_score, best_match,
                   content, verification, report, failure, taxonomy, nlp,
                   skills_order, text, sections, extracted, skill_scores,
                   skill_counts, raw_skills, final_skills, candidates>>

\* segmenter.segment(text) of a document
SegmentCall(doc) ==
    /\ Idle
    /\ text' = doc
    /\ sections' = Segment(doc)
    /\ entry' = "segment"
    /\ pc' = "done"
    /\ UNCHANGED <<client, collection, required, possessed, resume_lower, idx,
                   needs_semantic, covered_skills, missing_skills,
                   borderline_cases, exact_matches, best_score, best_match,
                   content, verification, report, failure, taxonomy, nlp,
                   skills_order, extracted, skill_scores, skill_counts,
                   raw_skills, final_skills, candidates, normalized>>

\* _generate_candidates(doc) of the doc of a block, lines 346-348
GenerateCandidatesCall(block) ==
    /\ Idle
    /\ text' = block
    /\ candidates' = GenerateCandidates(Doc(block, nlp.infix))
    /\ entry' = "candidates"
    /\ pc' = "done"
    /\ UNCHANGED <<client, collection, required, possessed, resume_lower, idx,
                   needs_semantic, covered_skills, missing_skills,
                   borderline_cases, exact_matches, best_score, best_match,
                   content, verification, report, failure, taxonomy, nlp,
                   skills_order, sections, extracted, skill_scores,
                   skill_counts, raw_skills, final_skills, normalized>>

\* _post_process(skills) of a raw set
PostProcessCall(skills) ==
    /\ Idle
    /\ raw_skills' = skills
    /\ final_skills' = PostProcess(taxonomy, skills)
    /\ entry' = "post_process"
    /\ pc' = "done"
    /\ UNCHANGED <<client, collection, required, possessed, resume_lower, idx,
                   needs_semantic, covered_skills, missing_skills,
                   borderline_cases, exact_matches, best_score, best_match,
                   content, verification, report, failure, taxonomy, nlp,
                   skills_order, text, sections, extracted, skill_scores,
                   skill_counts, candidates, normalized>>

----------------------------------------------------------------------------
(* Specifications. *)

\* Runs of up to MaxReq requirements, with every score and every collaborator
\* behaviour of the model.
Next ==
    \/ \E chunks \in ChunkSamples, skills \in SeqsUpTo(ReqNames, MaxReq) :
          AnalyzeStart(chunks, skills)
    \/ \E p \in SearchHits, s \in Scores : AnalyzeMatch(p, s)
    \/ \E resp \in Responses : AnalyzeVerify(resp)
    \/ AnalyzeReport
    \/ \E resume_skills \in ResumeSamples, target_skills \in SeqsUpTo(ReqNames, MaxReq) :
          ListsStart(resume_skills, target_skills)
    \/ ListsExact
    \/ ListsNoEvidence
    \/ \E k \in DOMAIN resume_lower, s \in Scores : ListsSemantic(k, s)
    \/ \E resp \in Responses : ListsVerify(resp)
    \/ ListsReport
    \/ Respond

Spec == Init /\ [][Next]_vars

\* Runs of up to MaxReqAgg requirements, with one score of each tier and one
\* collaborator behaviour of each outcome.
NextAgg ==
    \/ \E chunks \in AggChunkSamples, skills \in SeqsUpTo(ReqNames, MaxReqAgg) :
          AnalyzeStart(chunks, skills)
    \/ \E p \in SearchHits, s \in AggScores : AnalyzeMatch(p, s)
    \/ \E resp \in AggResponses : AnalyzeVerify(resp)
    \/ AnalyzeReport
    \/ \E resume_skills \in AggResumeSamples, target_skills \in SeqsUpTo(ReqNames, MaxReqAgg) :
          ListsStart(resume_skills, target_skills)
    \/ ListsExact
    \/ ListsNoEvidence
    \/ \E k \in DOMAIN resume_lower, s \in AggScores : ListsSemantic(k, s)
    \/ \E resp \in AggResponses : ListsVerify(resp)
    \/ ListsReport
    \/ Respond

SpecAgg == Init /\ [][NextAgg]_vars

\* Single calls of verify_skill, with every collaborator behaviour and score
\* of the model.
NextVerify ==
    \/ \E resp \in Responses, score \in VerifyScores : VerifySkillCall(resp, score)
    \/ Respond

SpecVerify == Init /\ [][NextVerify]_vars

\* The extractor on its own: every document of up to MaxLines lines and every
\* raw set, under every dataset.
NextExtract ==
    \/ \E doc \in Documents : ExtractCall(doc)
    \/ \E skills \in SUBSET RawNames : PostProcessCall(skills)
    \/ Respond

SpecExtract == InitExtract /\ [][NextExtract]_vars

\* The taxonomy on its own, under every dataset of up to MaxCatalog skills.
NextTaxonomy ==
    \/ \E skill \in NormalizeInputs(taxonomy) : NormalizeCall(skill)
    \/ Respond

SpecTaxonomy == InitTaxonomy /\ [][NextTaxonomy]_vars

\* The extractor on the documents of slash compounds.
NextCompound ==
    \/ \E doc \in CompoundDocuments : ExtractCall(doc)
    \/ Respond

SpecCompound == InitExtract /\ [][NextCompound]_vars

\* Candidate generation on its own, on the blocks of slash chains.
NextCandidates ==
    \/ \E block \in ChainBlocks : GenerateCandidatesCall(block)
    \/ Respond

SpecCandidates == InitExtract /\ [][NextCandidates]_vars

\* The extractor on the documents of the trust levels.
NextTrust ==
    \/ \E doc \in TrustDocuments : ExtractCall(doc)
    \/ Respond

SpecTrust == InitExtract /\ [][NextTrust]_vars

\* The segmenter on its own, and the extractor on the documents without text.
NextSegment ==
    \/ \E doc \in SegmentDocuments : SegmentCall(doc)
    \/ \E doc \in {d \in SegmentDocuments : IsBlank(d)} : ExtractCall(doc)
    \/ Respond

SpecSegment == InitExtract /\ [][NextSegment]_vars

\* The extractor on the documents of the anchoring rule.
NextAnchor ==
    \/ \E doc \in AnchorDocuments : ExtractCall(doc)
    \/ Respond

SpecAnchor == InitExtract /\ [][NextAnchor]_vars

----------------------------------------------------------------------------
(* Properties. *)

\* The number of places of s that hold x.
Occ(s, x) == Cardinality({i \in DOMAIN s : s[i] = x})

Records == Range(covered_skills) \cup Range(missing_skills)

InRun == entry \in {"analyze", "lists"}

\* C1: when a run of either entry point completes, every item of the required
\* list, place by place (a name listed twice counts twice), is in exactly one
\* of covered_skills and missing_skills, so the two lengths add up to the
\* number of requirements.
C1_EachRequirementOnce ==
    /\ (InRun /\ pc = "report") =>
          \A n \in ReqNames :
              Occ(SkillsOf(covered_skills), n) + Occ(SkillsOf(missing_skills), n)
                  = Occ(required, n)
    /\ (entry = "analyze" /\ pc = "done") =>
          Len(report.covered_skills) + Len(report.missing_skills)
              = report.verification_stats.total_skills
    /\ (entry = "lists" /\ pc = "done") =>
          Len(report.covered_skills) + Len(report.missing_skills)
              = Len(report.target_skills_full)

\* A list naming one skill twice, one of the two covered and the other missing.
C1_Witness ==
    /\ InRun /\ pc = "report"
    /\ required = <<"Python", "Python">>
    /\ Len(covered_skills) = 1
    /\ Len(missing_skills) = 1

\* C2: in both entry points a requirement is queued for verify_skill if and
\* only if its best similarity is strictly between 0.3 and 0.7: 0.3 itself is
\* a fast-path miss and 0.7 itself a fast-path match.  (Of the fast-path
\* records only those of analyze carry the score.)
C2_BorderlineStrict ==
    /\ InRun =>
          \A i \in DOMAIN borderline_cases :
              /\ CLEAR_MISS_THRESHOLD < borderline_cases[i].score
              /\ borderline_cases[i].score < CLEAR_MATCH_THRESHOLD
    /\ entry = "analyze" =>
          \A r \in Records :
              r.verification_method = "threshold" =>
                  (r.score <= CLEAR_MISS_THRESHOLD \/ r.score >= CLEAR_MATCH_THRESHOLD)

\* The state right after an iteration of the semantic loop: best_score and
\* best_match are those of the iteration, and nothing was appended since.
JustMatched ==
    /\ InRun
    /\ \/ pc \in {"match", "semantic"} /\ idx > 1
       \/ pc = "verify" /\ idx = 1
       \/ pc = "report" /\ borderline_cases = <<>> /\ best_match # ""

Last(s) == s[Len(s)]

\* C3: in both entry points a requirement decided at the semantic tier with
\* s >= 0.7 is recorded covered with confidence min((s - 0.7) / 0.3, 1.0) and
\* with the top-1 best match as its evidence.
C3_SemanticConfidence ==
    (JustMatched /\ best_score >= CLEAR_MATCH_THRESHOLD) =>
        /\ covered_skills # <<>>
        /\ "confidence" \in DOMAIN Last(covered_skills)
        /\ Last(covered_skills).confidence
              = Min(10 * (best_score - CLEAR_MATCH_THRESHOLD), ConfDen)
        /\ IF entry = "analyze"
           THEN Last(covered_skills).match = best_match
           ELSE Last(covered_skills).matched_with = best_match

\* C4: in analyze-gap-lists a requirement whose lowercased, trimmed form is
\* that of a possessed skill is recorded covered at the exact tier with
\* confidence 1.0 and the matched possessed term as evidence, and is never
\* passed to the semantic or the arbitration stage.
C4_ExactTier ==
    entry = "lists" =>
        /\ \A r \in Range(covered_skills) :
              ("match_type" \in DOMAIN r /\ r.match_type = "exact") =>
                  /\ r.matched_with \in Range(possessed)
                  /\ LowerStrip(r.matched_with) = LowerStrip(r.skill)
                  /\ "confidence" \in DOMAIN r
                  /\ r.confidence = ConfDen
        /\ \A i \in DOMAIN needs_semantic :
              \A j \in DOMAIN possessed :
                  LowerStrip(needs_semantic[i]) # LowerStrip(possessed[j])
        /\ \A i \in DOMAIN borderline_cases :
              \A j \in DOMAIN possessed :
                  LowerStrip(borderline_cases[i].skill) # LowerStrip(possessed[j])

\* verify_skill has returned after the collaborator was unavailable, raised
\* or answered with text that is no JSON.
FellBack ==
    /\ entry = "verify_skill" /\ pc = "done"
    /\ ~client \/ content.kind \in {"api_error", "not_json"}

\* min(2 |s - 0.5|, 1.0), in 1/3000ths
FallbackDistance(s) == 3 * Min(2 * Abs(s - FALLBACK_THRESHOLD), 1000)

\* C5 as stated: in those cases verify_skill returns COVERED iff s >= 0.5, with
\* confidence min(2 |s - 0.5|, 1.0).
C5_FallbackExact ==
    FellBack =>
        /\ verification.decision
              = IF best_score >= FALLBACK_THRESHOLD THEN "COVERED" ELSE "MISSING"
        /\ verification.confidence = FallbackDistance(best_score)

\* C5, amended: in those cases verify_skill returns COVERED iff s >= 0.5 and
\* MISSING otherwise, with confidence min(2 |s - 0.5|, 1.0) rounded to two
\* decimals (a multiple of 0.01 within 0.005 of it); s = 0.5 gives COVERED
\* with confidence 0.
C5_FallbackRounded ==
    FellBack =>
        /\ verification.decision
              = IF best_score >= FALLBACK_THRESHOLD THEN "COVERED" ELSE "MISSING"
        /\ verification.confidence % 30 = 0
        /\ Abs(verification.confidence - FallbackDistance(best_score)) <= 15
        /\ best_score = FALLBACK_THRESHOLD => verification.confidence = 0

\* The collaborator answered with text that is no JSON, at s = 0.5.
C5_Witness ==
    /\ FellBack /\ client /\ content.kind = "not_json"
    /\ best_score = FALLBACK_THRESHOLD
    /\ verification.decision = "COVERED"
    /\ verification.confidence = 0

\* The tier a record reports: verification_method in analyze, match_type in
\* analyze-gap-lists (whose missing records have none).
TierOf(r) ==
    IF "verification_method" \in DOMAIN r THEN r.verification_method
    ELSE IF "match_type" \in DOMAIN r THEN r.match_type
    ELSE None

\* C6: a borderline requirement resolved by the threshold fallback is
\* reported with tier "threshold-fallback", which tells it from one resolved
\* by an answer of the collaborator.
C6_FallbackTier ==
    InRun =>
        \A r \in Records :
            ("reasoning" \in DOMAIN r /\ r.reasoning = THRESHOLD_REASONING) =>
                TierOf(r) = "threshold-fallback"

\* C7: the decision verify_skill returns is COVERED or MISSING, whatever the
\* collaborator answered.
C7_DecisionBinary ==
    (entry = "verify_skill" /\ pc = "done") =>
        verification.decision \in {"COVERED", "MISSING"}

\* C8: verify_skill never raises to its caller: whatever the collaborator does
\* (an exception, text that is no JSON, JSON that is no object, no decision, a
\* decision that is no string, no confidence or one that is no number) it
\* returns a result with decision, confidence and reasoning.
C8_NeverRaises ==
    entry = "verify_skill" =>
        /\ pc # "error"
        /\ failure = ""
        /\ pc = "done" => {"decision", "confidence", "reasoning"} \subseteq DOMAIN verification

\* The collaborator answered with a confidence that is no number and the call
\* returned the fallback's result.
C8_Witness ==
    /\ entry = "verify_skill" /\ pc = "done" /\ client
    /\ content.kind = "object"
    /\ "confidence" \in DOMAIN content.fields
    /\ content.fields.confidence.t = "str"
    /\ verification.reasoning = THRESHOLD_REASONING

\* C9: every record of a gap report has a confidence, and it is in [0, 1].
C9_ConfidenceInRange ==
    InRun =>
        \A r \in Records :
            /\ "confidence" \in DOMAIN r
            /\ 0 <= r.confidence
            /\ r.confidence <= ConfDen

\* p tenths of a percent is n / d * 100 rounded to one decimal.
NearestTenth(p, n, d) == 2 * Abs(p * d - 1000 * n) <= d

RagRecords(s) == {i \in DOMAIN s : s[i].verification_method = "rag"}

\* The requirements of the run reported.
ReportTotal ==
    IF entry = "analyze" THEN report.verification_stats.total_skills
    ELSE Len(report.target_skills_full)

\* What C10 says of both entry points: match_percentage is
\* covered / total * 100 rounded to one decimal, 0 for no requirement.
MatchPercentageRounded ==
    IF ReportTotal = 0 THEN report.match_percentage = 0
    ELSE NearestTenth(report.match_percentage, Len(report.covered_skills), ReportTotal)

Running == InRun /\ pc \notin {"idle", "done", "error"}

WellFormed(r) ==
    /\ {"match_percentage", "covered_skills", "missing_skills", "roadmap"}
          \subseteq DOMAIN r
    /\ r.covered_skills = <<>>

\* C11: in both entry points a run whose required-skill list is empty or whose
\* possessed evidence is empty ends by returning a well-formed report with
\* match_percentage 0 and no covered record; it never ends with an error.
C11_EmptyInputsReport ==
    [][(Running /\ (required = <<>> \/ possessed = <<>>)
          /\ pc' \in {"done", "error"})
        => (pc' = "done" /\ WellFormed(report') /\ report'.match_percentage = 0)]_vars

\* C12: every requirement of an analysis is matched only against evidence that
\* the same analysis indexed: the context of a hit is one of the chunks of the
\* document under analysis.
C12_OwnEvidenceOnly ==
    (entry = "analyze" /\ pc \in {"match", "verify", "report"} /\ best_match # "")
        => best_match \in Range(possessed)

\* What extract has computed when it has returned.
Extracted_Done == entry = "extract" /\ pc = "done"

\* the places of a skill's accepted occurrences
OccurrencesOf(skill) == {i \in DOMAIN extracted : extracted[i][1] = skill}

\* the largest score of a skill's accepted occurrences
MaxSectionScore(skill) ==
    CHOOSE m \in {extracted[i][2] : i \in OccurrencesOf(skill)} :
        \A i \in OccurrencesOf(skill) : extracted[i][2] <= m

\* C13: extract puts a canonical skill in the raw accepted set iff
\* max_section_score + min(0.4, 0.2 * count) >= 1.6 or (count >= 2 and
\* max_section_score >= 1.0), max_section_score being the largest
\* base_score * section_multiplier over the skill's accepted occurrences and
\* count their number; repeated occurrences never raise the stored maximum.
\* Scores are in tenths.
C13_AcceptanceRule ==
    Extracted_Done =>
        /\ raw_skills \subseteq {e[1] : e \in Range(extracted)}
        /\ DOMAIN skill_scores = {e[1] : e \in Range(extracted)}
        /\ DOMAIN skill_counts = {e[1] : e \in Range(extracted)}
        /\ \A i \in DOMAIN extracted : extracted[i][2] \in {20, 16, 10, 8, 5, 4}
        /\ \A skill \in {e[1] : e \in Range(extracted)} :
              LET count == Cardinality(OccurrencesOf(skill))
                  max_section_score == MaxSectionScore(skill)
              IN  /\ skill_counts[skill] = count
                  /\ skill_scores[skill] = max_section_score
                  /\ skill \in raw_skills
                        <=> \/ max_section_score + Min(4, 2 * count) >= 16
                            \/ count >= 2 /\ max_section_score >= 10

\* A skill named twice in a work-history section, accepted by its repetition
\* alone: 1.0 + 0.4 is below 1.6.
C13_Witness ==
    /\ Extracted_Done
    /\ \E skill \in raw_skills :
          /\ skill_counts[skill] >= 2
          /\ skill_scores[skill] = 10


\* The words of the document that name a skill of the alias table, as places.
NamingPlaces ==
    {p \in {<<i, j>> : i \in DOMAIN text, j \in 1..MAX_NGRAM_SIZE + 2} :
        /\ p[2] \in DOMAIN text[p[1]]
        /\ Has(CANONICAL_SKILLS, Lower(text[p[1]][p[2]]))
        /\ Lower(text[p[1]][p[2]]) \notin DENYLIST}

NamedAt(p) == CANONICAL_SKILLS[Lower(text[p[1]][p[2]])]

\* No line of the document is a section header or a line promoted to the
\* Primary section.
Headerless ==
    \A i \in DOMAIN text : DetectHeader(text[i]) = None /\ ~IsPrimaryLine(text[i])

\* C14: for a text with no section header that names known skills once each
\* ("Experienced in Python, JavaScript, and Docker"), the output of extract
\* contains the canonical name of each named skill.
C14_HeaderlessSkillsExtracted ==
    (Extracted_Done /\ Headerless)
        => \A p \in NamingPlaces :
              (\A q \in NamingPlaces : NamedAt(q) = NamedAt(p) => q = p)
                  => NamedAt(p) \in Range(final_skills)

\* C15: extract("PYTHON") and extract("python") both return exactly
\* ["Python"], never both cases and never an empty list.
C15_CaseInvariance ==
    (Extracted_Done /\ text \in {<< <<"PYTHON">> >>, << <<"python">> >>})
        => final_skills = <<"Python">>


\* C16: extract is a pure function of its input text and the loaded taxonomy:
\* two calls with identical text and identical taxonomy contents return
\* identical sorted lists, also when several taxonomy entries tie for the best
\* fuzzy ratio of a candidate.  The second call is one of a process that
\* iterates the same set of taxonomy skills in another order.
C16_PureFunction ==
    Extracted_Done
        => \A order \in Orders(taxonomy) :
              ExtractResult(taxonomy, order, nlp.infix, text).final_skills
                  = final_skills


\* The words of the document, line after line.
AllWords == Flatten([i \in DOMAIN text |-> Words(text[i])])

\* The spans of the document a candidate may be: a whole word (a slash
\* compound is written as one word), a slash part of a word, or two to four
\* words that follow one another.  A span is the sequence of its words.
Spans ==
    {<<w>> : w \in Range(AllWords)}
    \cup {<<part>> : part \in UNION {Range(Split(w)) :
                                        w \in {v \in Range(AllWords) : HasSlash(v)}}}
    \cup {SubSeq(AllWords, g[1], g[1] + g[2] - 1) :
            g \in {h \in (DOMAIN AllWords) \X (2..4) : h[1] + h[2] - 1 <= Len(AllWords)}}

\* The span resolves to the skill: by the alias table, by the taxonomy map, or
\* by a fuzzy ratio of 90 or more with a skill of the taxonomy.
ResolvesTo(span, skill) ==
    LET lower == Join(LowerAll(span))
    IN  /\ lower \notin DENYLIST
        /\ \/ Has(CANONICAL_SKILLS, lower) /\ CANONICAL_SKILLS[lower] = skill
           \/ Lookup(taxonomy, lower) = skill
           \/ /\ Len(Join(span)) >= 4
              /\ skill \in taxonomy.skills_set
              /\ RatioAtLeast(Join(span), skill, 90)

PostProcessed == pc = "done" /\ entry \in {"extract", "post_process"}

\* The canonical names: the values of the alias table and of the taxonomy map.
CanonicalNames ==
    Range(CANONICAL_SKILLS) \cup Range(taxonomy.skills_lower_map)

\* The string joins several skills: it holds a delimiter and its parts
\* resolve to two or more canonical names.
JoinsSeveralSkills(name) ==
    /\ HasDelimiter(name)
    /\ Cardinality({ToCanonical(taxonomy, part) : part \in Range(Split(name))}
                     \ {None}) >= 2

\* C18: "Git, Git/GitHub, GitHub, JavaScript/TypeScript" under a "Skills"
\* header produces exactly ["Git", "GitHub", "JavaScript", "TypeScript"]; every
\* string in the output is a canonical name (a value of the alias table or of
\* the taxonomy map), and no compound of several skills joined by '/', ',',
\* '|' or '&' survives.
C18_CanonicalOutput ==
    /\ (Extracted_Done
          /\ text = << <<"Skills">>,
                       <<"Git", "Git/GitHub", "GitHub", "JavaScript/TypeScript">> >>)
          => final_skills = <<"Git", "GitHub", "JavaScript", "TypeScript">>
    /\ PostProcessed
          => \A name \in Range(final_skills) :
                name \in CanonicalNames /\ ~JoinsSeveralSkills(name)

\* The example with a catalog that lists "Git/GitHub": the compound is matched
\* as a whole and accepted, and split by the final normalisation.
C18_Witness ==
    /\ Extracted_Done
    /\ text = << <<"Skills">>,
                 <<"Git", "Git/GitHub", "GitHub", "JavaScript/TypeScript">> >>
    /\ "Git/GitHub" \in raw_skills
    /\ final_skills = <<"Git", "GitHub", "JavaScript", "TypeScript">>


\* the lowercase forms of the returned list
FinalLower == {Lower(name) : name \in Range(final_skills)}

\* C19: for every raw accepted set, the list returned by post-processing
\* never contains a generic term of the abstraction table (cloud, css, api,
\* apis, database, databases) together with any of that term's specific
\* counterparts.
C19_NoGenericWithSpecific ==
    PostProcessed
        => \A r \in Range(ABSTRACTION_RULES) :
              ~(r[1] \in FinalLower /\ r[2] \cap FinalLower # {})

\* C20: a generic term with no specific counterpart present is retained: text
\* under a Primary header that mentions "Cloud" and none of AWS, Azure, GCP or
\* Google Cloud yields an output containing "Cloud".
C20_LoneGenericRetained ==
    (/\ Extracted_Done
     /\ Len(text) >= 2
     /\ DetectHeader(text[1]) = "PRIMARY"
     /\ "Cloud" \in Range(AllWords)
     /\ Range(AllWords) \cap {"AWS", "Azure", "GCP", "Amazon", "Google"} = {})
        => "Cloud" \in Range(final_skills)


\* An anchor word, literally or by its lemma.
IsAnchor(token) ==
    Lower(token) \in ANCHOR_WORDS \/ Lower(Lemma(token)) \in ANCHOR_WORDS

\* Some token within 5 tokens before the start of the span or 5 tokens after
\* its end is an anchor word (places from 0, the span being start..end-1).
AnchorNear(tokens, start, end) ==
    \E i \in 0..(Len(tokens) - 1) :
        /\ \/ start - 5 <= i /\ i < start
           \/ end <= i /\ i < end + 5
        /\ IsAnchor(tokens[i + 1])

\* The matched texts of a block that enter the tally, under the stated rule.
TallyOfBlock(block, section_type) ==
    LET tokens == Doc(block, nlp.infix)
        found == GenerateCandidates(tokens)
        enters(c) ==
            /\ Match(taxonomy, skills_order, c).match_type # None
            /\ section_type = "SECONDARY" => AnchorNear(tokens, c.start, c.end)
        kept == SelectSeq(found, enters)
    IN  [i \in DOMAIN kept |-> kept[i].text]

TallyOfSections ==
    Flatten([k \in DOMAIN SectionOrder |->
        Flatten([b \in DOMAIN sections[SectionOrder[k]] |->
            TallyOfBlock(sections[SectionOrder[k]][b], SectionOrder[k])])])

\* C21: a matched candidate in a Secondary segment enters the tally iff some
\* token within 5 tokens before its span start or 5 tokens after its span
\* end, outside the span, is an anchor word literally or by lemma; candidates
\* in Primary, Tertiary and Unknown segments are never anchor-checked.  Hence
\* the Secondary line "I have advanced control over timelines" contributes no
\* skill.
C21_AnchoringRule ==
    (Extracted_Done /\ ~IsBlank(text))
        => /\ [i \in DOMAIN extracted |-> extracted[i][3]] = TallyOfSections
           /\ text = << <<"Experience">>,
                        <<"I", "have", "advanced", "control", "over", "timelines">> >>
                 => extracted = <<>> /\ final_skills = <<>>

\* A skill of a work-history section whose only anchor word, an anchor by its
\* lemma, comes as the fifth token after it.
C21_Witness ==
    /\ Extracted_Done
    /\ text = << <<"Experience">>,
                 <<"Python", "daily", "daily", "daily", "daily", "uses">> >>
    /\ extracted = << <<"Python", 10, "Python">> >>


\* segment has returned.
Segmented == entry = "segment" /\ pc = "done"

\* C22: for empty, whitespace-only or None input, segment returns all four
\* buckets empty and extract returns an empty list, without raising.
C22_EmptyInput ==
    /\ (Segmented /\ IsBlank(text))
          => \A t \in SectionType : sections[t] = <<>>
    /\ (entry = "extract" /\ pc \in {"done", "error"} /\ IsBlank(text))
          => pc = "done" /\ final_skills = <<>>

\* segment of a text of blank lines has returned.
C22_Witness ==
    /\ Segmented
    /\ text = << <<>>, <<>> >>
    /\ DOMAIN sections = SectionType


\* No line of the document is detected as a section header.
NoHeaderLine == \A i \in DOMAIN text : DetectHeader(text[i]) = None

\* the lines of the document that are not blank
NonBlankLines == SelectSeq(text, LAMBDA line : line # <<>>)

\* the lines as one block, or no block when there is none
OneBlock(lines) == IF lines = <<>> THEN <<>> ELSE <<lines>>

\* C23, as stated: if no line of the document is detected as a section
\* header, segment places the entire document in the Unknown bucket and
\* leaves Primary, Secondary and Tertiary empty.
C23_AllUnknown ==
    (Segmented /\ NoHeaderLine)
        => /\ sections["UNKNOWN"] = OneBlock(NonBlankLines)
           /\ sections["PRIMARY"] = <<>>
           /\ sections["SECONDARY"] = <<>>
           /\ sections["TERTIARY"] = <<>>

\* C23, amended: if no line is detected as a section header, the lines that
\* match no promotion pattern form one block of the Unknown bucket, every
\* line that matches a promotion pattern is a block of its own in Primary,
\* and Secondary and Tertiary are empty.
C23_UnknownButPromoted ==
    (Segmented /\ NoHeaderLine)
        => /\ sections["UNKNOWN"]
                 = OneBlock(SelectSeq(NonBlankLines, LAMBDA line : ~IsPrimaryLine(line)))
           /\ sections["PRIMARY"]
                 = LET promoted == SelectSeq(NonBlankLines, IsPrimaryLine)
                   IN  [i \in DOMAIN promoted |-> <<promoted[i]>>]
           /\ sections["SECONDARY"] = <<>>
           /\ sections["TERTIARY"] = <<>>

\* A document without a header that holds a promoted line between two lines
\* of content.
C23_Witness ==
    /\ Segmented
    /\ text = << <<"python">>, <<"Tech", "Stack", COLON, "Docker">>,
                 <<"Used", "Python">> >>
    /\ sections["UNKNOWN"] = << << <<"python">>, <<"Used", "Python">> >> >>
    /\ sections["PRIMARY"] = << << <<"Tech", "Stack", COLON, "Docker">> >> >>


\* C24: for every name in taxonomy.skills, normalize(name) returns that same
\* name, also when the catalog holds names differing only in case or names
\* whose lowercase form is an alias of another canonical name.
C24_NormalizeIdentity ==
    (entry = "normalize" /\ pc = "done" /\ normalized.skill \in taxonomy.skills_set)
        => normalized.canonical = normalized.skill


\* C25: when the taxonomy source is missing or fails to load, the taxonomy is
\* empty and extraction degrades to alias-table-only matching without error:
\* every candidate under a Primary header that resolves through the static
\* alias table (the single-entity compound "CI/CD" included) still appears in
\* the output, and fuzzy matching never matches.
C25_DegradedMode ==
    (entry = "extract" /\ pc \in {"done", "error"} /\ taxonomy = EmptyTaxonomy)
        => /\ pc = "done"
           /\ \A i \in DOMAIN extracted :
                 /\ extracted[i][2] \notin {16, 8, 4}
                 /\ extracted[i][2] = 20
                       => extracted[i][1] \in Range(final_skills)


\* The bucket the stated rule gives the line at place i, "NONE" if none.
BucketOf(i) ==
    LET line == text[i]
        headers == {j \in 1..(i - 1) : DetectHeader(text[j]) # None}
        latest == CHOOSE j \in headers : \A k \in headers : k <= j
    IN  IF line = <<>> THEN "NONE"
        ELSE IF DetectHeader(line) # None
        THEN (IF COLON \in Range(line) THEN DetectHeader(line) ELSE "NONE")
        ELSE IF IsPrimaryLine(line) THEN "PRIMARY"
        ELSE IF headers = {} THEN "UNKNOWN"
        ELSE DetectHeader(text[latest])

\* the lines of a bucket, block after block
LinesOf(t) == Flatten(sections[t])

\* C26: segment places every non-blank line in at most one bucket: a
\* non-header line matching a promotion pattern goes to Primary as its own
\* block whatever the active section; any other non-header line goes to the
\* bucket of the most recent header (Unknown if none); a header line is kept,
\* as the first line of the new section's block, iff it contains a colon, and
\* otherwise appears in no bucket.  Lines are counted with their repetitions.
C26_LinePlacement ==
    Segmented
        => /\ \A t \in SectionType, line \in Range(text) :
                 Occ(LinesOf(t), line)
                     = Cardinality({i \in DOMAIN text :
                                        text[i] = line /\ BucketOf(i) = t})
           /\ \A t \in SectionType : Range(LinesOf(t)) \subseteq Range(text)
           /\ \A i \in DOMAIN text :
                 /\ (text[i] # <<>> /\ DetectHeader(text[i]) = None
                        /\ IsPrimaryLine(text[i]))
                       => <<text[i]>> \in Range(sections["PRIMARY"])
                 /\ (DetectHeader(text[i]) # None /\ COLON \in Range(text[i]))
                       => \E block \in Range(sections[DetectHeader(text[i])]) :
                             block[1] = text[i]

\* Under an Experience header, a promoted line and then a line of content:
\* the first in Primary, the second in Secondary, the header in no bucket.
C26_Witness ==
    /\ Segmented
    /\ text = << <<"Experience">>, <<"Tech", "Stack", COLON, "Docker">>,
                 <<"Used", "Python">> >>
    /\ sections["PRIMARY"] = << << <<"Tech", "Stack", COLON, "Docker">> >> >>
    /\ sections["SECONDARY"] = << << <<"Used", "Python">> >> >>


\* C27: an accepted skill that contains a slash and is itself a recognized
\* taxonomy entry ("CI/CD", or a catalog entry such as "TCP/IP") passes through
\* the whole of post-processing as one entry: it is neither split into its
\* parts nor dropped from the output.
C27_KnownCompoundKept ==
    PostProcessed
        => \A skill \in raw_skills :
              (HasSlash(skill) /\ IsKnownSkill(taxonomy, skill))
                  => Normalize(taxonomy, skill) \in Range(final_skills)


\* The call of candidate generation has returned.
Candidates_Done == entry = "candidates" /\ pc = "done"

\* The token stream of the block of the call.
StreamOf == Doc(text, nlp.infix)

\* The places i (from 0) of the token stream with a slash token at i + 1 and
\* a token at i + 2.
SlashPlaces ==
    {i \in 0..(Len(StreamOf) - 3) : StreamOf[i + 2] = "/"}

\* The compound of the place i is among the candidates, with the span (i, i + 3).
CompoundAt(i) ==
    \E k \in DOMAIN candidates :
        /\ candidates[k].text = StreamOf[i + 1] \o "/" \o StreamOf[i + 3]
        /\ candidates[k].start = i
        /\ candidates[k].end = i + 3

\* C28, as stated: for every index i of the token stream with token i + 1
\* equal to "/" and a token at i + 2, candidate generation emits the compound
\* tokens[i] + "/" + tokens[i + 2] with the span (i, i + 3), the overlapping
\* places of a chain A / B / C included.
C28_EveryPlaceEmitted ==
    Candidates_Done => \A i \in SlashPlaces : CompoundAt(i)

\* C28, as the code has it: the compounds that are emitted do not overlap, and
\* a place whose compound is not emitted overlaps an emitted compound that
\* starts one or two tokens before it; so the scan is greedy from the left and
\* the chain A / B / C yields "A/B" only.
C28_GreedyFromLeft ==
    Candidates_Done
        => /\ \A i \in SlashPlaces :
                 CompoundAt(i)
                     => \A j \in SlashPlaces : (j > i /\ j < i + 3) => ~CompoundAt(j)
           /\ \A i \in SlashPlaces :
                 ~CompoundAt(i)
                     => \E j \in SlashPlaces : j < i /\ j >= i - 2 /\ CompoundAt(j)

\* A chain of three names has been scanned: its first compound is among the
\* candidates and its second is not.
C28_Witness ==
    /\ Candidates_Done
    /\ StreamOf = <<"CI", "/", "CD", "/", "IP">>
    /\ CompoundAt(0)
    /\ ~CompoundAt(2)


\* C29: after any sequence of analyze calls on one GapAnalyzer, the evidence
\* the latest call searches consists only of the chunks of that call's own
\* resume: no point indexed by an earlier call is in the collection that is
\* searched, and none is queued as the context of an arbitration.
C29_SearchedEvidenceIsOwn ==
    (entry = "analyze" /\ pc \in {"match", "verify", "report"})
        => /\ \A p \in DOMAIN collection : collection[p] \in Range(possessed)
           /\ \A k \in DOMAIN borderline_cases :
                 borderline_cases[k].context \in Range(possessed) \cup {""}


\* The accepted occurrences of a block: the candidates that match, all of
\* them outside the Secondary sections and the ones with an anchor word near
\* within them, each with the skill it resolves to, the kind of the match and
\* the section of the block.
AcceptedOfBlock(block, section_type) ==
    LET tokens == Doc(block, nlp.infix)
        found == GenerateCandidates(tokens)
        enters(c) ==
            /\ Match(taxonomy, skills_order, c).match_type # None
            /\ section_type = "SECONDARY" => AnchorNear(tokens, c.start, c.end)
        kept == SelectSeq(found, enters)
    IN  [i \in DOMAIN kept |->
            [skill |-> Match(taxonomy, skills_order, kept[i]).canonical,
             match_type |-> Match(taxonomy, skills_order, kept[i]).match_type,
             section |-> section_type]]

\* The accepted occurrences of the document.
AcceptedOccurrences ==
    Flatten([k \in DOMAIN SectionOrder |->
        Flatten([b \in DOMAIN sections[SectionOrder[k]] |->
            AcceptedOfBlock(sections[SectionOrder[k]][b], SectionOrder[k])])])

\* the places of the accepted occurrences of a skill
AcceptedOf(occs, sk) == {occ \in DOMAIN occs : occs[occ].skill = sk}

HasPrimaryOccurrence(occs, sk) ==
    \E occ \in AcceptedOf(occs, sk) : occs[occ].section = "PRIMARY"

HasSecondaryExact(occs, sk) ==
    \E occ \in AcceptedOf(occs, sk) :
        /\ occs[occ].section = "SECONDARY"
        /\ occs[occ].match_type = "EXACT"

====
